---- MODULE Spec2Model ----
(***************************************************************************)
(* Model of the file_reader package: the plugin registry, the reader       *)
(* configuration, the FileReader dispatcher and the read methods of the    *)
(* format handlers with the shared post-processing of BaseReader.          *)
(*                                                                         *)
(* Strings that the code transforms character by character (extensions)    *)
(* are sequences of one-character strings.  Rendered documents are         *)
(* sequences of blocks, one block per piece of text the code concatenates. *)
(***************************************************************************)
EXTENDS Integers, Sequences, FiniteSets, TLC

VARIABLES registry, regLog, config, args, last, diCall, hashSeed

vars == <<registry, regLog, config, args, last, diCall, hashSeed>>

(***************************************************************************)
(* Bounds                                                                  *)
(***************************************************************************)
MaxRegs == 2

MaxDispatchRegs == 1

(***************************************************************************)
(* str.lower() / str.upper() on extensions                                 *)
(***************************************************************************)
UpperAlphabet ==
  <<"A","B","C","D","E","F","G","H","I","J","K","L","M",
    "N","O","P","Q","R","S","T","U","V","W","X","Y","Z">>

LowerAlphabet ==
  <<"a","b","c","d","e","f","g","h","i","j","k","l","m",
    "n","o","p","q","r","s","t","u","v","w","x","y","z">>

LowerChar(c) ==
  IF \E i \in 1..Len(UpperAlphabet) : UpperAlphabet[i] = c
  THEN LowerAlphabet[CHOOSE i \in 1..Len(UpperAlphabet) : UpperAlphabet[i] = c]
  ELSE c

UpperChar(c) ==
  IF \E i \in 1..Len(LowerAlphabet) : LowerAlphabet[i] = c
  THEN UpperAlphabet[CHOOSE i \in 1..Len(LowerAlphabet) : LowerAlphabet[i] = c]
  ELSE c

Lower(s) == [i \in 1..Len(s) |-> LowerChar(s[i])]

Upper(s) == [i \in 1..Len(s) |-> UpperChar(s[i])]

(***************************************************************************)
(* Extensions used as inputs                                               *)
(***************************************************************************)
NoExt == << >>

ExtCsv == <<"c","s","v">>
ExtCsvUpper == <<"C","S","V">>
ExtDocx == <<"d","o","c","x">>
ExtDocxMixed == <<"D","o","c","x">>
ExtJson == <<"j","s","o","n">>
ExtTxt == <<"t","x","t">>
ExtDefault == <<"d","e","f","a","u","l","t">>
ExtXml == <<"x","m","l">>
ExtYaml == <<"y","a","m","l">>
ExtYml == <<"y","m","l">>
ExtXlsx == <<"x","l","s","x">>
ExtXls == <<"x","l","s">>
ExtXlsm == <<"x","l","s","m">>
ExtPdf == <<"p","d","f">>
ExtLog == <<"l","o","g">>
ExtLogUpper == <<"L","O","G">>

None == "None"

ReaderClasses ==
  {"CsvReader", "DocxReader", "ExcelReader", "JsonReader",
   "TxtReader", "XmlReader", "YamlReader", "PdfReader"}

(***************************************************************************)
(* PluginRegistry                                                          *)
(***************************************************************************)
EmptyRegistry == [k \in {} |-> None]

RegisterInCaseSensitive(reg, extension, reader_cls) ==
  [k \in (DOMAIN reg) \cup {extension} |->
      IF k = extension THEN reader_cls ELSE reg[k]]

RegisterIn(reg, extension, reader_cls) ==
  [k \in (DOMAIN reg) \cup {Lower(extension)} |->
      IF k = Lower(extension) THEN reader_cls ELSE reg[k]]

GetReader(reg, extension) ==
  IF Lower(extension) \in DOMAIN reg THEN reg[Lower(extension)] ELSE None

GetSupportedExtensions(reg) == DOMAIN reg

IsSupportedCaseSensitive(reg, extension) == extension \in DOMAIN reg

IsSupported(reg, extension) == Lower(extension) \in DOMAIN reg

\* The registrations made while the entry-point module is imported, in
\* import order; stacked decorators apply bottom-up.
LoadOrder ==
  << [ext |-> ExtCsv,     cls |-> "CsvReader"],
     [ext |-> ExtDocx,    cls |-> "DocxReader"],
     [ext |-> ExtJson,    cls |-> "JsonReader"],
     [ext |-> ExtTxt,     cls |-> "TxtReader"],
     [ext |-> ExtDefault, cls |-> "TxtReader"],
     [ext |-> ExtXml,     cls |-> "XmlReader"],
     [ext |-> ExtYml,     cls |-> "YamlReader"],
     [ext |-> ExtYaml,    cls |-> "YamlReader"],
     [ext |-> ExtXlsm,    cls |-> "ExcelReader"],
     [ext |-> ExtXls,     cls |-> "ExcelReader"],
     [ext |-> ExtXlsx,    cls |-> "ExcelReader"] >>

RECURSIVE RegisterAll(_, _)
RegisterAll(reg, entries) ==
  IF entries = << >> THEN reg
  ELSE RegisterAll(RegisterIn(reg, Head(entries).ext, Head(entries).cls),
                   Tail(entries))

ModuleLoadRegistry == RegisterAll(EmptyRegistry, LoadOrder)

\* History of the registrations that are in effect: those of module load
\* unless the registry was cleared since, then the later ones.
LogEntries(log) ==
  (IF log.base = "load" THEN LoadOrder ELSE << >>) \o log.regs

(***************************************************************************)
(* FileReaderConfig                                                        *)
(***************************************************************************)
OutputFormat == {"markdown", "markdown_ai", "plain", "structured_json"}

DefaultMaxChunkSize == 4000

ChunkSizes == {1, 2000, DefaultMaxChunkSize}

FileReaderConfigKeepsKeySections(output_format, ai_optimized, include_metadata, max_chunk_size, extract_key_sections, processing_images) ==
  LET auto == (output_format = "markdown_ai") IN
  [ output_format        |-> output_format,
    ai_optimized         |-> IF auto THEN TRUE ELSE ai_optimized,
    include_metadata     |-> IF auto THEN TRUE ELSE include_metadata,
    max_chunk_size       |-> max_chunk_size,
    extract_key_sections |-> extract_key_sections,
    processing_images    |-> processing_images ]

FileReaderConfig(output_format, ai_optimized, include_metadata, max_chunk_size, extract_key_sections, processing_images) ==
  LET auto == (output_format = "markdown_ai") IN
  [ output_format        |-> output_format,
    ai_optimized         |-> IF auto THEN TRUE ELSE ai_optimized,
    include_metadata     |-> IF auto THEN TRUE ELSE include_metadata,
    max_chunk_size       |-> max_chunk_size,
    extract_key_sections |-> IF auto THEN TRUE ELSE extract_key_sections,
    processing_images    |-> processing_images ]

ConfigArgs(output_format, ai_optimized, include_metadata, max_chunk_size, extract_key_sections, processing_images) ==
  [ output_format        |-> output_format,
    ai_optimized         |-> ai_optimized,
    include_metadata     |-> include_metadata,
    max_chunk_size       |-> max_chunk_size,
    extract_key_sections |-> extract_key_sections,
    processing_images    |-> processing_images ]

DefaultArgs ==
  ConfigArgs("markdown", FALSE, FALSE, DefaultMaxChunkSize, FALSE, FALSE)

DefaultConfig ==
  FileReaderConfig("markdown", FALSE, FALSE, DefaultMaxChunkSize, FALSE, FALSE)

(***************************************************************************)
(* DocumentIntelligence and the BaseReader post-processing steps.          *)
(* A value in processing is the content built so far together with the    *)
(* post-processing steps that were applied to it.                          *)
(***************************************************************************)
Raw(content) == [content |-> content, steps |-> << >>]

GenerateMetadata(content, doc_type) == <<"metadata_block">>

\* metadata, AI summary, the keyword sections found in the text, the full
\* content under its heading, the footer
FormatForAiConsumption(content, doc_type) ==
  GenerateMetadata(content, doc_type) \o <<"ai_summary", "key_sections">>
     \o <<"full_document_content_heading">> \o content \o <<"ai_footer">>

ApplyAiFormattingOr(p, cfg, doc_type) ==
  [ content |->
      IF cfg.output_format = "markdown_ai"
        THEN FormatForAiConsumption(p.content, doc_type)
      ELSE IF cfg.ai_optimized \/ cfg.include_metadata
        THEN GenerateMetadata(p.content, doc_type) \o p.content
      ELSE p.content,
    steps |-> Append(p.steps, "ai_formatting") ]

ApplyAiFormatting(p, cfg, doc_type) ==
  [ content |->
      IF cfg.output_format = "markdown_ai"
        THEN FormatForAiConsumption(p.content, doc_type)
      ELSE IF cfg.ai_optimized /\ cfg.include_metadata
        THEN GenerateMetadata(p.content, doc_type) \o p.content
      ELSE p.content,
    steps |-> Append(p.steps, "ai_formatting") ]

\* the keys json.dumps writes for structured_data, in order
JsonKeys ==
  << "metadata.source_file", "metadata.document_type", "metadata.word_count",
     "metadata.char_count", "summary", "key_metrics", "sections.summary",
     "sections.key_points", "sections.metrics", "sections.recommendations",
     "full_content" >>

FormatAsJson(p, cfg, doc_type) ==
  [ content |->
      IF cfg.output_format = "structured_json"
        THEN <<"{">> \o JsonKeys \o p.content \o <<"}">>
        ELSE p.content,
    steps |-> Append(p.steps, "json_structuring") ]

PostProcess(content, cfg, doc_type) ==
  FormatAsJson(ApplyAiFormatting(Raw(content), cfg, doc_type), cfg, doc_type)

(***************************************************************************)
(* Outcome of a handler's read                                             *)
(***************************************************************************)
HReturn(p) ==
  [kind |-> "return", exc |-> None, cause |-> None,
   content |-> p.content, steps |-> p.steps]

HRaise(exc, cause) ==
  [kind |-> "raise", exc |-> exc, cause |-> cause,
   content |-> << >>, steps |-> << >>]

\* open(file_path, "r", encoding="utf-8") followed by reading the text
OpenTextError(file) ==
  CASE file.cond = "vanished"    -> "FileNotFoundError"
    [] file.cond = "denied"      -> "PermissionError"
    [] file.cond = "undecodable" -> "UnicodeDecodeError"
    [] OTHER                     -> None

(***************************************************************************)
(* CsvReader                                                               *)
(***************************************************************************)
CsvFormatAsMarkdown(cfg) ==
  (IF cfg.output_format = "markdown_ai"
     THEN <<"csv_dataset_information">> ELSE << >>) \o <<"csv_markdown_table">>

FormatCsvContent(cfg) ==
  IF cfg.output_format \in {"markdown", "markdown_ai"}
    THEN CsvFormatAsMarkdown(cfg)
  ELSE IF cfg.output_format = "plain"
    THEN <<"csv_plain_lines">>
  ELSE CsvFormatAsMarkdown(cfg)

CsvReaderRead(file, cfg) ==
  IF OpenTextError(file) # None THEN HRaise(OpenTextError(file), "open")
  ELSE IF file.cond = "malformed" THEN HRaise("csv.Error", "parse")
  ELSE IF file.size = 0 THEN HReturn(Raw(<<"Empty CSV file">>))
  ELSE HReturn(PostProcess(FormatCsvContent(cfg), cfg, "csv_dataset"))

(***************************************************************************)
(* JsonReader                                                              *)
(***************************************************************************)
JsonFormatAsMarkdown(cfg) ==
  (IF cfg.output_format = "markdown_ai"
     THEN <<"json_structure_analysis">> ELSE << >>) \o <<"json_fenced_block">>

FormatJsonContent(cfg) ==
  IF cfg.output_format \in {"markdown", "markdown_ai"}
    THEN JsonFormatAsMarkdown(cfg)
  ELSE IF cfg.output_format = "plain"
    THEN <<"json_dump">>
  ELSE JsonFormatAsMarkdown(cfg)

JsonReaderRead(file, cfg) ==
  IF OpenTextError(file) # None THEN HRaise(OpenTextError(file), "open")
  ELSE IF file.cond = "malformed" \/ file.size = 0
    THEN HRaise("JSONDecodeError", "parse")
  ELSE HReturn(PostProcess(FormatJsonContent(cfg), cfg, "json_data"))

(***************************************************************************)
(* XmlReader                                                               *)
(***************************************************************************)
FormatStandardXml(xml, cfg) ==
  IF cfg.output_format = "markdown" THEN <<"xml_fence_open", xml, "fence_close">>
  ELSE <<xml>>

FormatAiXml(xml) == <<"xml_structure_analysis", "xml_fence_open", xml, "fence_close">>

XmlReaderRead(file, cfg) ==
  IF file.cond = "ok" /\ file.size > 0
    THEN HReturn(PostProcess(
           IF cfg.output_format = "markdown_ai"
             THEN FormatAiXml("pretty_xml")
             ELSE FormatStandardXml("pretty_xml", cfg),
           cfg, "xml_document"))
  \* any exception of the parsers: re-open the file and return it as it is
  ELSE IF OpenTextError(file) # None THEN HRaise(OpenTextError(file), "open")
  ELSE HReturn(Raw(FormatStandardXml("raw_content", cfg)))

(***************************************************************************)
(* YamlReader                                                              *)
(***************************************************************************)
FormatStandardYaml(yaml, cfg, error) ==
  LET body == IF error THEN <<"yaml_parse_error_note", yaml>> ELSE <<yaml>> IN
  IF cfg.output_format = "markdown"
    THEN <<"yaml_fence_open">> \o body \o <<"fence_close">>
    ELSE body

FormatAiYaml(yaml) == <<"yaml_configuration_analysis", "yaml_fence_open", yaml, "fence_close">>

YamlReaderReadNoFallback(file, cfg) ==
  IF OpenTextError(file) # None THEN HRaise(OpenTextError(file), "open")
  ELSE IF file.cond = "malformed" THEN HRaise("YAMLError", "parse")
  ELSE HReturn(PostProcess(
         IF cfg.output_format = "markdown_ai"
           THEN FormatAiYaml("formatted_yaml")
           ELSE FormatStandardYaml("formatted_yaml", cfg, FALSE),
         cfg, "yaml_config"))

YamlReaderRead(file, cfg) ==
  IF OpenTextError(file) # None THEN HRaise(OpenTextError(file), "open")
  ELSE IF file.cond = "malformed"
    THEN HReturn(Raw(FormatStandardYaml("raw_content", cfg, TRUE)))
  ELSE HReturn(PostProcess(
         IF cfg.output_format = "markdown_ai"
           THEN FormatAiYaml("formatted_yaml")
           ELSE FormatStandardYaml("formatted_yaml", cfg, FALSE),
         cfg, "yaml_config"))

(***************************************************************************)
(* TxtReader                                                               *)
(***************************************************************************)
FormatStandardText(cfg) ==
  IF cfg.output_format = "markdown"
    THEN <<"text_fence_open", "raw_content", "fence_close">>
    ELSE <<"raw_content">>

FormatAiText == <<"text_document_analysis", "text_formatted_content">>

TxtReaderRead(file, cfg) ==
  IF OpenTextError(file) # None THEN HRaise(OpenTextError(file), "open")
  ELSE HReturn(PostProcess(
         IF cfg.output_format = "markdown_ai"
           THEN FormatAiText ELSE FormatStandardText(cfg),
         cfg, "text_document"))

(***************************************************************************)
(* DocxReader                                                              *)
(***************************************************************************)
CreateFormatError == <<"docx_unsupported_format_error">>

CreateSimpleErrorFallback == <<"docx_processing_error">>

\* _validate_file_fast: the exception that leaves it, or None.  A ValueError
\* raised inside the zipfile block (corrupt member, missing part) and any
\* other exception of zipfile except BadZipFile is logged and dropped there.
ValidateFileFast(file) ==
  CASE file.cond = "vanished"  -> "FileNotFoundError"
    [] file.cond = "too_large" -> "ValueError"
    [] file.size = 0           -> "ValueError"
    [] file.cond = "not_zip"   -> "ValueError"
    [] OTHER                   -> None

IsCompatibleFormat(file) ==
  Lower(file.ext) \in {<<"d","o","c","x">>, <<"d","o","c","m">>}

DocxAiHeader(cfg) ==
  IF cfg.output_format = "markdown_ai" THEN <<"docx_ai_header">> ELSE << >>

ProcessDocumentOptimized(file, cfg) ==
  IF file.cond \in {"convert_error", "corrupt_member", "missing_part", "denied"}
    THEN Raw(CreateSimpleErrorFallback)
  ELSE IF file.cond = "empty_markdown"
    THEN Raw(CreateSimpleErrorFallback)
  ELSE PostProcess(DocxAiHeader(cfg) \o <<"docx_markdown">>, cfg, "docx_document")

DocxReaderRead(file, cfg) ==
  IF file.cond = "import_error" THEN HReturn(Raw(CreateSimpleErrorFallback))
  ELSE IF ValidateFileFast(file) # None
    THEN HRaise(ValidateFileFast(file), "validate")
  ELSE IF ~IsCompatibleFormat(file) THEN HReturn(Raw(CreateFormatError))
  ELSE HReturn(ProcessDocumentOptimized(file, cfg))

(***************************************************************************)
(* ExcelReader                                                             *)
(***************************************************************************)
SelectReadingStrategy(file) ==
  IF Lower(file.ext) = <<"x","l","s">> THEN "xlrd" ELSE "openpyxl"

\* whether the library of a strategy can read the workbook
StrategyReads(strategy, file) ==
  CASE file.cond \in {"ok", "render_error"} -> strategy = SelectReadingStrategy(file)
    [] file.cond = "other_format" -> strategy # SelectReadingStrategy(file)
    [] OTHER -> FALSE

ExcelData(strategy) == [strategy |-> strategy, sheets |-> strategy # "fallback_failed"]

FallbackStrategies(file) ==
  IF Lower(file.ext) = <<"x","l","s">> THEN <<"xlrd", "openpyxl">>
  ELSE <<"openpyxl", "xlrd">>

ReadWithFallback(file) ==
  LET chain == FallbackStrategies(file) IN
  IF StrategyReads(chain[1], file) THEN ExcelData(chain[1])
  ELSE IF StrategyReads(chain[2], file) THEN ExcelData(chain[2])
  ELSE ExcelData("fallback_failed")

ExtractExcelData(file, strategy) ==
  IF StrategyReads(strategy, file) THEN ExcelData(strategy)
  ELSE ReadWithFallback(file)

FormatAiExcel(data) ==
  <<"excel_workbook_analysis">> \o
  (IF data.sheets THEN <<"excel_sheet_structure", "excel_sheet_tables">> ELSE << >>)

FormatStandardExcel(data, cfg) ==
  IF cfg.output_format = "plain"
    THEN (IF data.sheets THEN <<"excel_plain_sheets">> ELSE << >>)
    ELSE (IF data.sheets THEN <<"excel_sheet_tables">> ELSE << >>)

HandleExcelError == <<"excel_error_document">>

ExcelReaderRead(file, cfg) ==
  LET data == ExtractExcelData(file, SelectReadingStrategy(file)) IN
  IF file.cond = "render_error" THEN HReturn(Raw(HandleExcelError))
  ELSE HReturn(PostProcess(
         IF cfg.output_format = "markdown_ai"
           THEN FormatAiExcel(data) ELSE FormatStandardExcel(data, cfg),
         cfg, "excel_workbook"))

(***************************************************************************)
(* PdfReader                                                               *)
(***************************************************************************)
FormatStandardPdf(cfg) ==
  IF cfg.output_format = "markdown"
    THEN <<"pdf_fence_open", "pdf_text", "fence_close">>
    ELSE <<"pdf_text">>

PdfReaderRead(file, cfg) ==
  IF file.cond # "ok" \/ file.size = 0 THEN HRaise("RuntimeError", "open")
  ELSE HReturn(PostProcess(
         IF cfg.output_format = "markdown_ai"
           THEN <<"pdf_document_analysis", "pdf_pages">>
           ELSE FormatStandardPdf(cfg),
         cfg, "pdf_document"))

(***************************************************************************)
(* reader_cls(config).read(file_path)                                      *)
(***************************************************************************)
ReaderRead(reader_cls, file, cfg) ==
  CASE reader_cls = "CsvReader"   -> CsvReaderRead(file, cfg)
    [] reader_cls = "DocxReader"  -> DocxReaderRead(file, cfg)
    [] reader_cls = "ExcelReader" -> ExcelReaderRead(file, cfg)
    [] reader_cls = "JsonReader"  -> JsonReaderRead(file, cfg)
    [] reader_cls = "TxtReader"   -> TxtReaderRead(file, cfg)
    [] reader_cls = "XmlReader"   -> XmlReaderRead(file, cfg)
    [] reader_cls = "YamlReader"  -> YamlReaderRead(file, cfg)
    [] reader_cls = "PdfReader"   -> PdfReaderRead(file, cfg)

(***************************************************************************)
(* Files                                                                   *)
(*   exists, readable, size: what os.path.exists, os.access and            *)
(*   os.path.getsize report; ext: the extension of the path without its    *)
(*   dot; cond: what the handler finds when it opens and parses the file.  *)
(***************************************************************************)
TextExts ==
  {ExtCsv, ExtCsvUpper, ExtJson, ExtXml, ExtYaml, ExtYml, ExtTxt, ExtLog, ExtLogUpper}

DocxExts == {ExtDocx, ExtDocxMixed}

ExcelExts == {ExtXlsx, ExtXls, ExtXlsm}

FileExts == TextExts \cup DocxExts \cup ExcelExts \cup {ExtPdf, NoExt}

TextConds == {"ok", "malformed", "undecodable", "vanished", "denied"}

DocxConds ==
  {"ok", "import_error", "vanished", "denied", "too_large", "not_zip",
   "corrupt_member", "corrupt_unused_member", "missing_part",
   "convert_error", "empty_markdown"}

ExcelConds == {"ok", "other_format", "all_fail", "vanished", "denied", "render_error"}

Conds(ext) ==
  CASE ext \in TextExts  -> TextConds
    [] ext \in DocxExts  -> DocxConds
    [] ext \in ExcelExts -> ExcelConds
    [] ext = ExtPdf      -> {"ok", "malformed"}
    [] OTHER             -> {"ok"}

File(exists, readable, size, ext, cond) ==
  [exists |-> exists, readable |-> readable, size |-> size, ext |-> ext, cond |-> cond]

\* a missing path is neither readable nor has it a size; the handler meets
\* the conditions other than "ok" only on a file the dispatcher let through
Files ==
  { f \in [exists : BOOLEAN, readable : BOOLEAN, size : {0, 1},
           ext : FileExts, cond : {"ok"}] :
      f.exists \/ (~f.readable /\ f.size = 0) }
  \cup
  UNION { { File(TRUE, TRUE, 1, x, c) : c \in Conds(x) } : x \in FileExts }

NoFile == File(FALSE, FALSE, 0, NoExt, "ok")

(***************************************************************************)
(* FileReader.read                                                         *)
(***************************************************************************)
CheckOrderExtensionFirst ==
  <<"exists", "readable", "has_extension", "registered", "non_empty">>

CheckOrder ==
  <<"exists", "readable", "non_empty", "has_extension", "registered">>

Passes(check, file, reg) ==
  CASE check = "exists"        -> file.exists
    [] check = "readable"      -> file.readable
    [] check = "non_empty"     -> file.size # 0
    [] check = "has_extension" -> file.ext # << >>
    [] check = "registered"    -> IsSupported(reg, file.ext)

ErrorOfOneMessage(check) ==
  CASE check = "exists"   -> [exc |-> "FileNotFoundError", msg |-> "Archivo no encontrado"]
    [] check = "readable" -> [exc |-> "PermissionError", msg |-> "El archivo no es legible"]
    [] OTHER              -> [exc |-> "ValueError", msg |-> "El archivo esta vacio"]

ErrorOf(check) ==
  CASE check = "exists" ->
         [exc |-> "FileNotFoundError", msg |-> "Archivo no encontrado"]
    [] check = "readable" ->
         [exc |-> "PermissionError", msg |-> "El archivo no es legible"]
    [] check = "non_empty" ->
         [exc |-> "ValueError", msg |-> "El archivo esta vacio"]
    [] check = "has_extension" ->
         [exc |-> "ValueError", msg |-> "El archivo no tiene extension"]
    [] check = "registered" ->
         [exc |-> "ValueError", msg |-> "Extension de archivo no soportada"]

\* index of the first check of CheckOrder from i on that the file fails, 0 if none
RECURSIVE FirstFailure(_, _, _)
FirstFailure(file, reg, i) ==
  IF i > Len(CheckOrder) THEN 0
  ELSE IF ~Passes(CheckOrder[i], file, reg) THEN i
  ELSE FirstFailure(file, reg, i + 1)

NoCall(op) ==
  [ op |-> op, file |-> NoFile, kind |-> "none", exc |-> None, msg |-> None,
    msgExt |-> << >>, cause |-> None, result |-> << >>, steps |-> << >>,
    checks |-> << >>, lookups |-> << >>, reader |-> None, invoked |-> FALSE,
    handlerExc |-> None ]

\* the calls of PluginRegistry made while the first k checks are evaluated
LookupsUpTo(k, failed) ==
  IF k = 0 \/ CheckOrder[k] # "registered" THEN
    (IF \E i \in 1..(IF k = 0 THEN Len(CheckOrder) ELSE k) : CheckOrder[i] = "registered"
       THEN <<"is_supported">> ELSE << >>)
  ELSE <<"is_supported", "get_supported_extensions">>

\* try: reader_cls(config).read(path)  except Exception: raise ValueError
WrapHandlerPropagates(call, h) ==
  IF h.kind = "return"
    THEN [call EXCEPT !.kind = "return", !.result = h.content, !.steps = h.steps]
    ELSE [call EXCEPT !.kind = "raise", !.exc = h.exc, !.msg = h.cause,
                      !.handlerExc = h.exc]

WrapHandler(call, h) ==
  IF h.kind = "return"
    THEN [call EXCEPT !.kind = "return", !.result = h.content, !.steps = h.steps]
    ELSE [call EXCEPT !.kind = "raise", !.exc = "ValueError",
                      !.msg = "Fallo al procesar archivo",
                      !.msgExt = Upper(call.file.ext), !.cause = h.exc,
                      !.handlerExc = h.exc]

FileReaderRead(reg, cfg, file) ==
  LET k    == FirstFailure(file, reg, 1)
      base == [NoCall("read") EXCEPT !.file = file] IN
  IF k # 0
    THEN [base EXCEPT !.kind = "raise",
                      !.exc = ErrorOf(CheckOrder[k]).exc,
                      !.msg = ErrorOf(CheckOrder[k]).msg,
                      !.msgExt = IF CheckOrder[k] = "registered" THEN file.ext ELSE << >>,
                      !.checks = SubSeq(CheckOrder, 1, k),
                      !.lookups = LookupsUpTo(k, TRUE)]
    ELSE LET reader_cls == GetReader(reg, file.ext) IN
         WrapHandler([base EXCEPT !.checks = CheckOrder,
                                  !.lookups = Append(LookupsUpTo(0, FALSE), "get_reader"),
                                  !.reader = reader_cls,
                                  !.invoked = TRUE],
                     ReaderRead(reader_cls, file, cfg))

(***************************************************************************)
(* DocumentIntelligence on a text.                                         *)
(* A text is the sequence of its lines.  A line is known by the keyword    *)
(* classes its lower-cased text contains (has), by whether it is empty     *)
(* after strip() (blank) and by the metric tokens the patterns match in    *)
(* it, left to right (found).  A line of a section is named by its index   *)
(* in the text; lines joined by "\n" are the sequence of their indices.    *)
(***************************************************************************)
MaxLines == 4

MaxDocLines == 3

Line(has, blank, found) == [has |-> has, blank |-> blank, found |-> found]

ContentLine == Line({}, FALSE, << >>)

BlankLine == Line({}, TRUE, << >>)

SummaryLine == Line({"summary"}, FALSE, << >>)

RecommendationsLine == Line({"recommendations"}, FALSE, << >>)

MetricsLine == Line({"metrics"}, FALSE, << >>)

\* a line such as "Summary of results": a summary and a metrics keyword
SummaryOfResultsLine == Line({"summary", "metrics"}, FALSE, << >>)

SectionNames == <<"summary", "key_points", "metrics", "recommendations">>

EmptySections ==
  [summary |-> << >>, key_points |-> << >>, metrics |-> << >>, recommendations |-> << >>]

\* the branch of the if/elif chain that a line takes
SectionOfLine(line) ==
  IF "summary" \in line.has THEN "summary"
  ELSE IF "recommendations" \in line.has THEN "recommendations"
  ELSE IF "metrics" \in line.has THEN "metrics"
  ELSE None

\* if section_content and current_section: sections[current_section] = join
Flush(st) ==
  IF st.section_content # << >> /\ st.current_section # None
    THEN [st.sections EXCEPT ![st.current_section] = st.section_content]
    ELSE st.sections

\* one pass of the loop body; accumulated records every line that entered
\* section_content
ScanLineKeepingBlank(line, i, st) ==
  IF SectionOfLine(line) # None
    THEN [ sections        |-> Flush(st),
           current_section |-> SectionOfLine(line),
           section_content |-> <<i>>,
           accumulated     |-> st.accumulated \cup {i} ]
  ELSE IF st.current_section # None
    THEN [st EXCEPT !.section_content = Append(@, i),
                    !.accumulated = @ \cup {i}]
  ELSE st

ScanLine(line, i, st) ==
  IF SectionOfLine(line) # None
    THEN [ sections        |-> Flush(st),
           current_section |-> SectionOfLine(line),
           section_content |-> <<i>>,
           accumulated     |-> st.accumulated \cup {i} ]
  ELSE IF st.current_section # None /\ ~line.blank
    THEN [st EXCEPT !.section_content = Append(@, i),
                    !.accumulated = @ \cup {i}]
  ELSE st

RECURSIVE ScanLines(_, _, _)
ScanLines(text, i, st) ==
  IF i > Len(text) THEN st
  ELSE ScanLines(text, i + 1, ScanLine(text[i], i, st))

\* the scan of the whole text, before the last flush
ScanText(text) ==
  ScanLines(text, 1, [ sections        |-> EmptySections,
                       current_section |-> None,
                       section_content |-> << >>,
                       accumulated     |-> {} ])

ExtractKeySections(text) == Flush(ScanText(text))

\* the metric tokens of the texts, in an order that the orders of a set
\* are told by
AllTokens ==
  <<"1%", "2%", "3%", "4%", "5%", "6%", "7%", "8%", "9%", "10%", "11%", "$5">>

\* the regular expressions of extract_metrics_and_numbers, in list order
MetricPatterns == <<"percent", "money", "large_number", "duration">>

PatternOf(token) == IF token = "$5" THEN "money" ELSE "percent"

\* a line with two percentages, one of them twice, after an amount of money
MetricsFound == <<"$5", "2%", "1%", "2%">>

\* a line with more percentages than the AI document lists
ManyMetricsFound ==
  <<"1%", "2%", "3%", "4%", "5%", "6%", "7%", "8%", "9%", "10%", "11%">>

RECURSIVE TokensOf(_, _)
\* the tokens of the lines of the text from line i on, in reading order
TokensOf(text, i) ==
  IF i > Len(text) THEN << >> ELSE text[i].found \o TokensOf(text, i + 1)

RECURSIVE FindAll(_, _, _)
\* metrics.extend(re.findall(pattern, content)) for the patterns from k on
FindAll(text, k, matches) ==
  IF k > Len(MetricPatterns) THEN matches
  ELSE FindAll(text, k + 1,
               matches \o SelectSeq(TokensOf(text, 1),
                                    LAMBDA t : PatternOf(t) = MetricPatterns[k]))

HashSeeds == {0, 1}

Reverse(seq) == [i \in 1..Len(seq) |-> seq[Len(seq) + 1 - i]]

\* list(set(...)): the elements once each, in the order the hash seed of
\* the process gives the strings
ListOfSet(tokens, seed) ==
  SelectSeq(IF seed = 0 THEN AllTokens ELSE Reverse(AllTokens),
            LAMBDA t : \E i \in 1..Len(tokens) : tokens[i] = t)

ExtractMetricsAndNumbers(text, seed) == ListOfSet(FindAll(text, 1, << >>), seed)

MaxSummaryLines == 5

\* the first lines that are not blank (every line of the texts that is not
\* blank is longer than ten characters and starts with no markup)
GenerateAiSummary(text) ==
  LET meaningful == SelectSeq([i \in 1..Len(text) |-> i], LAMBDA i : ~text[i].blank) IN
  SubSeq(meaningful, 1, IF Len(meaningful) < MaxSummaryLines
                          THEN Len(meaningful) ELSE MaxSummaryLines)

MaxShownMetrics == 10

Block(name, items) == [block |-> name, items |-> items]

FirstItems(seq, n) == SubSeq(seq, 1, IF Len(seq) < n THEN Len(seq) ELSE n)

FormatForAiConsumptionAllMetrics(text, doc_type, seed) ==
  LET sections == ExtractKeySections(text)
      metrics  == ExtractMetricsAndNumbers(text, seed)
      summary  == GenerateAiSummary(text) IN
  <<Block("metadata_block", <<doc_type>>), Block("ai_summary", summary)>>
    \o <<Block("key_metrics", metrics)>>
    \o (IF sections.summary # << >>
          THEN <<Block("executive_summary", sections.summary)>> ELSE << >>)
    \o (IF sections.metrics # << >>
          THEN <<Block("performance_metrics", sections.metrics)>> ELSE << >>)
    \o (IF sections.recommendations # << >>
          THEN <<Block("recommendations", sections.recommendations)>> ELSE << >>)
    \o <<Block("full_document_content_heading", << >>), Block("content", text)>>
    \o <<Block("ai_footer", << >>)>>

\* format_for_ai_consumption on a text: the AI document as its blocks
FormatForAiConsumptionOfText(text, doc_type, seed) ==
  LET sections == ExtractKeySections(text)
      metrics  == ExtractMetricsAndNumbers(text, seed)
      summary  == GenerateAiSummary(text) IN
  <<Block("metadata_block", <<doc_type>>), Block("ai_summary", summary)>>
    \o (IF metrics # << >>
          THEN <<Block("key_metrics", FirstItems(metrics, MaxShownMetrics))>> ELSE << >>)
    \o (IF sections.summary # << >>
          THEN <<Block("executive_summary", sections.summary)>> ELSE << >>)
    \o (IF sections.metrics # << >>
          THEN <<Block("performance_metrics", sections.metrics)>> ELSE << >>)
    \o (IF sections.recommendations # << >>
          THEN <<Block("recommendations", sections.recommendations)>> ELSE << >>)
    \o <<Block("full_document_content_heading", << >>), Block("content", text)>>
    \o <<Block("ai_footer", << >>)>>

(***************************************************************************)
(* The texts given to DocumentIntelligence                                 *)
(***************************************************************************)
SectionLines ==
  {ContentLine, BlankLine, SummaryLine, RecommendationsLine, MetricsLine,
   SummaryOfResultsLine}

DocLines ==
  {Line(has, FALSE, found) :
     has \in {{}, {"summary"}, {"recommendations"}, {"metrics"}},
     found \in {<< >>, MetricsFound}}
  \cup {BlankLine, Line({}, FALSE, ManyMetricsFound)}

TextsOver(lines, n) == UNION {[1..k -> lines] : k \in 0..n}

\* "Executive Summary", two content lines, "Recommendations", one content line
ExampleText ==
  <<SummaryLine, ContentLine, ContentLine, RecommendationsLine, ContentLine>>

Texts == TextsOver(SectionLines, MaxLines) \cup TextsOver(DocLines, MaxDocLines)
           \cup {ExampleText}

\* no call of DocumentIntelligence made yet on the text
NoPureCall(text) == [fn |-> "none", in |-> text, out |-> << >>]

(***************************************************************************)
(* Tables.  A source row is the sequence of its cell texts; an emitted     *)
(* table is the sequence of its rows, header row and separator row first,  *)
(* each row the sequence of the texts that are joined with " | ".          *)
(***************************************************************************)
MaxCols == 2

MaxRows == 2

\* cell texts: a short one and one that holds a pipe and is longer than two
\* characters
TableCells == {"a", "x|y"}

\* escape_markdown_table_cell: the pipe is escaped
EscapeMarkdownTableCell(cell) == IF cell = "x|y" THEN "x\\|y" ELSE cell

\* the number of cells Markdown reads in one joined text: one more than its
\* unescaped pipes
CellsRead(text) == IF text = "x|y" THEN 2 ELSE 1

RECURSIVE CellsReadInRow(_)
CellsReadInRow(row) ==
  IF row = << >> THEN 0 ELSE CellsRead(Head(row)) + CellsReadInRow(Tail(row))

SeparatorRow(n) == [i \in 1..n |-> "---"]

Truncate(seq, n) == SubSeq(seq, 1, IF Len(seq) < n THEN Len(seq) ELSE n)

\* row + [""] * (len(headers) - len(row)), then [:len(headers)]
PadRow(row, n) == Truncate(row \o [i \in 1..(IF Len(row) < n THEN n - Len(row) ELSE 0) |-> ""], n)

\* create_markdown_table(headers, rows)
CreateMarkdownTable(headers, rows) ==
  IF headers = << >> \/ rows = << >> THEN << >>
  ELSE LET n == Len(headers) IN
       << [i \in 1..n |-> EscapeMarkdownTableCell(headers[i])], SeparatorRow(n) >>
         \o [r \in 1..Len(rows) |->
               [i \in 1..n |-> IF PadRow(rows[r], n)[i] = "" THEN "-"
                               ELSE EscapeMarkdownTableCell(PadRow(rows[r], n)[i])]]

RECURSIVE TextTableRows(_, _, _, _)
\* the while loop of _convert_text_table from line i on: the data rows and
\* the index the loop ends with.  A line without values is a blank line, a
\* line with one value is one no row can be extracted from.
TextTableRows(lines, i, n, rows) ==
  IF i > Len(lines) THEN [rows |-> rows, i |-> i]
  ELSE IF Len(lines[i]) = 0 THEN [rows |-> rows, i |-> i + 1]
  ELSE IF Len(lines[i]) >= 2
    THEN TextTableRows(lines, i + 1, n, Append(rows, PadRow(lines[i], n)))
  ELSE [rows |-> rows, i |-> i]

\* _convert_text_table(lines): the table, empty if none is made, and the
\* number of lines consumed
ConvertTextTable(lines) ==
  IF lines = << >> THEN [table |-> << >>, consumed |-> 0]
  ELSE LET headers == SelectSeq(lines[1], LAMBDA h : h # "")
           n       == Len(headers)
           scan    == TextTableRows(lines, 2, n, << >>) IN
       IF n < 2 \/ scan.rows = << >>
         THEN [table |-> << >>, consumed |-> 1]
         ELSE [table |-> <<headers, SeparatorRow(n)>> \o scan.rows,
               consumed |-> scan.i - 1]

\* rows of 0..MaxCols cells
SourceRows == UNION {[1..k -> TableCells] : k \in 0..MaxCols}

\* a header row and up to MaxRows rows under it
SourceTables == UNION {[1..k -> SourceRows] : k \in 1..(MaxRows + 1)}

\* the rows that the AI rendering of a long CSV shows
CsvSampleRows == 10

\* the file a,b / 1,2 / 3,4
ExampleCsv == << <<"a", "b">>, <<"1", "2">>, <<"3", "4">> >>

CsvTables == SourceTables \cup {ExampleCsv}

CsvFormatAsMarkdownOfRowsFirstOnly(rows, output_format) ==
  [ output_format |-> output_format,
    metadata      |-> output_format = "markdown_ai",
    table         |-> <<rows[1], SeparatorRow(Len(rows[1]))>>
                        \o Truncate(Tail(rows), 1),
    statistics    |-> FALSE ]

\* CsvReader._format_as_markdown(rows): the dataset information, the table
\* (a line "| a | b |" is the row of its texts) and the dataset statistics
CsvFormatAsMarkdownOfRows(rows, output_format) ==
  LET sampled == output_format = "markdown_ai" /\ Len(rows) > CsvSampleRows + 1 IN
  [ output_format |-> output_format,
    metadata      |-> output_format = "markdown_ai",
    table         |-> <<rows[1], SeparatorRow(Len(rows[1]))>>
                        \o (IF sampled THEN Truncate(Tail(rows), CsvSampleRows)
                            ELSE Tail(rows)),
    statistics    |-> sampled ]

(***************************************************************************)
(* State and operations                                                    *)
(***************************************************************************)
Init ==
  /\ registry = ModuleLoadRegistry
  /\ regLog = [base |-> "load", regs |-> << >>]
  /\ config = DefaultConfig
  /\ args = DefaultArgs
  /\ last = NoCall("load")
  /\ diCall = NoPureCall(<< >>)
  /\ hashSeed \in HashSeeds

RegExts == {ExtLog, ExtLogUpper, ExtCsv, ExtCsvUpper}

RegClasses == {"CsvReader", "TxtReader", "JsonReader"}

\* @PluginRegistry.register(extension) applied to reader_cls
Register(extension, reader_cls) ==
  /\ Len(regLog.regs) < MaxRegs
  /\ registry' = RegisterIn(registry, extension, reader_cls)
  /\ regLog' = [regLog EXCEPT !.regs = Append(@, [ext |-> extension, cls |-> reader_cls])]
  /\ last' = NoCall("register")
  /\ UNCHANGED <<config, args, diCall, hashSeed>>

ClearRegistry ==
  /\ registry' = EmptyRegistry
  /\ regLog' = [base |-> "clear", regs |-> << >>]
  /\ last' = NoCall("clear_registry")
  /\ UNCHANGED <<config, args, diCall, hashSeed>>

\* FileReader(FileReaderConfig(...)): a new dispatcher with a new configuration
Construct(output_format, ai_optimized, include_metadata, max_chunk_size, extract_key_sections, processing_images) ==
  /\ config' = FileReaderConfig(output_format, ai_optimized, include_metadata,
                                max_chunk_size, extract_key_sections, processing_images)
  /\ args' = ConfigArgs(output_format, ai_optimized, include_metadata,
                        max_chunk_size, extract_key_sections, processing_images)
  /\ last' = NoCall("construct")
  /\ UNCHANGED <<registry, regLog, diCall, hashSeed>>

Read(file) ==
  /\ last' = FileReaderRead(registry, config, file)
  /\ UNCHANGED <<registry, regLog, config, args, diCall, hashSeed>>

RegisterAny == \E e \in RegExts, c \in RegClasses : Register(e, c)

RegisterFew ==
  /\ Len(regLog.regs) < MaxDispatchRegs
  /\ \E e \in {ExtLogUpper, ExtCsvUpper}, c \in {"TxtReader", "JsonReader"} :
        Register(e, c)

ConstructAny ==
  \E f \in OutputFormat, ai \in BOOLEAN, md \in BOOLEAN, sz \in ChunkSizes,
     ks \in BOOLEAN, im \in BOOLEAN : Construct(f, ai, md, sz, ks, im)

ConstructDefaultSized ==
  \E f \in OutputFormat, ai \in BOOLEAN, md \in BOOLEAN, ks \in BOOLEAN :
     Construct(f, ai, md, DefaultMaxChunkSize, ks, FALSE)

ReadAny == \E f \in Files : Read(f)

\* _import_pdf_reader(): its try block holds a log call and no import, so
\* nothing can raise ImportError in it
ImportPdfReader == TRUE

\* the import statements of health_check_handler: the modules were loaded
\* with the entry point, so no decorator runs again
ImportReadersRegistering(reg) == RegisterIn(reg, ExtPdf, "PdfReader")

ImportReaders(reg) == reg

\* the uploaded or fetched file as the entry point stored it: it exists, is
\* readable and is not empty
StoredFiles ==
  {f \in Files : f.exists /\ f.readable /\ f.size # 0 /\ f.cond \in {"ok", "malformed"}}

\* lambda_handler on a request for a file called *.ext: the check of the
\* PDF capability, then FileReaderConfig, FileReader and read
LambdaHandlerCall(reg, cfg, file) ==
  LET pdf_available == ImportPdfReader IN
  IF Lower(file.ext) = ExtPdf /\ ~pdf_available
    THEN [NoCall("lambda_handler") EXCEPT
            !.file = file, !.kind = "raise", !.exc = "ValueError",
            !.msg = "El procesamiento de archivos PDF no esta disponible"]
    ELSE [FileReaderRead(reg, cfg, file) EXCEPT !.op = "lambda_handler"]

LambdaHandler(file, output_format, ai_optimized, include_metadata, extract_key_sections) ==
  /\ config' = FileReaderConfig(output_format, ai_optimized, include_metadata,
                                DefaultMaxChunkSize, extract_key_sections, FALSE)
  /\ args' = ConfigArgs(output_format, ai_optimized, include_metadata,
                        DefaultMaxChunkSize, extract_key_sections, FALSE)
  /\ last' = LambdaHandlerCall(registry, config', file)
  /\ UNCHANGED <<registry, regLog, diCall, hashSeed>>

LambdaHandlerAny ==
  \E file \in StoredFiles, f \in OutputFormat, ai \in BOOLEAN :
     LambdaHandler(file, f, ai, ai, FALSE)

HealthCheckHandler ==
  /\ registry' = ImportReaders(registry)
  /\ last' = [NoCall("health_check_handler") EXCEPT
                !.kind = "return",
                !.lookups = <<"get_supported_extensions", "get_supported_extensions",
                              "get_supported_extensions">>]
  /\ UNCHANGED <<regLog, config, args, diCall, hashSeed>>

\* FileReader.get_supported_extensions()
GetSupportedExtensionsCall ==
  /\ last' = [NoCall("get_supported_extensions") EXCEPT
                !.kind = "return", !.lookups = <<"get_supported_extensions">>]
  /\ UNCHANGED <<registry, regLog, config, args, diCall, hashSeed>>

\* FileReader.is_supported_file(file_path)
IsSupportedFileCall(ext) ==
  /\ last' = [NoCall("is_supported_file") EXCEPT
                !.kind = "return",
                !.msgExt = ext,
                !.result = IF ext # << >> /\ IsSupported(registry, ext)
                             THEN <<"True">> ELSE <<"False">>,
                !.lookups = IF ext # << >> THEN <<"is_supported">> ELSE << >>]
  /\ UNCHANGED <<registry, regLog, config, args, diCall, hashSeed>>

IsSupportedFileAny == \E ext \in FileExts : IsSupportedFileCall(ext)

\* DocumentIntelligence.extract_key_sections(content)
ExtractKeySectionsCall ==
  /\ diCall' = [ fn  |-> "extract_key_sections",
               in  |-> diCall.in,
               out |-> [ sections    |-> ExtractKeySections(diCall.in),
                         accumulated |-> ScanText(diCall.in).accumulated ] ]
  /\ UNCHANGED <<registry, regLog, config, args, last, hashSeed>>

\* DocumentIntelligence.format_for_ai_consumption(content, file_path, doc_type)
FormatForAiConsumptionCall ==
  /\ diCall' = [ fn  |-> "format_for_ai_consumption",
               in  |-> diCall.in,
               out |-> FormatForAiConsumptionOfText(diCall.in, "text_document", hashSeed) ]
  /\ UNCHANGED <<registry, regLog, config, args, last, hashSeed>>

\* create_markdown_table(headers, rows) on the first row of a sheet and the
\* rows under it
CreateMarkdownTableCall ==
  /\ diCall' = [ fn  |-> "create_markdown_table",
                 in  |-> diCall.in,
                 out |-> CreateMarkdownTable(Head(diCall.in), Tail(diCall.in)) ]
  /\ UNCHANGED <<registry, regLog, config, args, last, hashSeed>>

\* DocxReader._convert_text_table(lines)
ConvertTextTableCall ==
  /\ diCall' = [ fn  |-> "convert_text_table",
                 in  |-> diCall.in,
                 out |-> ConvertTextTable(diCall.in) ]
  /\ UNCHANGED <<registry, regLog, config, args, last, hashSeed>>

\* CsvReader._format_as_markdown(rows, file_path)
CsvFormatAsMarkdownCall(output_format) ==
  /\ diCall' = [ fn  |-> "csv_format_as_markdown",
                 in  |-> diCall.in,
                 out |-> CsvFormatAsMarkdownOfRows(diCall.in, output_format) ]
  /\ UNCHANGED <<registry, regLog, config, args, last, hashSeed>>

CsvFormatAsMarkdownAny ==
  \E f \in {"markdown", "markdown_ai", "structured_json"} : CsvFormatAsMarkdownCall(f)

\* a new process (a cold start of the function): the modules are loaded
\* again and the interpreter draws a new hash seed; diCall keeps what the
\* previous process rendered
ColdStart ==
  /\ hashSeed' \in HashSeeds
  /\ registry' = ModuleLoadRegistry
  /\ regLog' = [base |-> "load", regs |-> << >>]
  /\ config' = DefaultConfig
  /\ args' = DefaultArgs
  /\ last' = NoCall("load")
  /\ UNCHANGED diCall

Next == RegisterAny \/ ClearRegistry \/ ConstructAny \/ ReadAny

Spec == Init /\ [][Next]_vars

\* the registry alone
NextRegistry == RegisterAny \/ ClearRegistry

SpecRegistry == Init /\ [][NextRegistry]_vars

\* the configuration alone
NextConfig == ConstructAny

SpecConfig == Init /\ [][NextConfig]_vars

\* the dispatcher over a changing registry, default configuration
NextDispatch == RegisterFew \/ ClearRegistry \/ ReadAny

SpecDispatch == Init /\ [][NextDispatch]_vars

\* the dispatcher and the handlers under every configuration, registry as loaded
NextRead == ConstructDefaultSized \/ ReadAny

SpecRead == Init /\ [][NextRead]_vars

\* the service in normal operation: requests (each one configures a
\* dispatcher and reads), health checks and queries of the dispatcher, in
\* any interleaving
NextService ==
  LambdaHandlerAny \/ HealthCheckHandler \/ GetSupportedExtensionsCall
    \/ IsSupportedFileAny

SpecService == Init /\ [][NextService]_vars

\* the table renderings on every source table
InitTables ==
  /\ registry = ModuleLoadRegistry
  /\ regLog = [base |-> "load", regs |-> << >>]
  /\ config = DefaultConfig
  /\ args = DefaultArgs
  /\ last = NoCall("load")
  /\ diCall \in {NoPureCall(t) : t \in CsvTables}
  /\ hashSeed \in HashSeeds

NextTables == CreateMarkdownTableCall \/ ConvertTextTableCall \/ CsvFormatAsMarkdownAny

SpecTables == InitTables /\ [][NextTables]_vars

\* DocumentIntelligence on every text, over restarts of the process
InitDocument ==
  /\ registry = ModuleLoadRegistry
  /\ regLog = [base |-> "load", regs |-> << >>]
  /\ config = DefaultConfig
  /\ args = DefaultArgs
  /\ last = NoCall("load")
  /\ diCall \in {NoPureCall(t) : t \in Texts}
  /\ hashSeed \in HashSeeds

NextDocument == ExtractKeySectionsCall \/ FormatForAiConsumptionCall \/ ColdStart

SpecDocument == InitDocument /\ [][NextDocument]_vars

(***************************************************************************)
(* Vocabulary of the properties                                            *)
(***************************************************************************)
Entries == LogEntries(regLog)

\* some registration in effect names e, ignoring letter case
Registered(e) == \E i \in 1..Len(Entries) : Lower(Entries[i].ext) = Lower(e)

\* the class of the most recent registration in effect that names e
LastRegistered(e) ==
  IF Registered(e)
    THEN LET i == CHOOSE j \in 1..Len(Entries) :
                    /\ Lower(Entries[j].ext) = Lower(e)
                    /\ \A k \in (j + 1)..Len(Entries) : Lower(Entries[k].ext) # Lower(e)
         IN Entries[i].cls
    ELSE None

ProbeExts == FileExts \cup RegExts \cup {ExtDefault}

IsRead == last.op = "read"

\* the file of the last read passed the four checks made on the path
PassesPathChecks ==
  /\ last.file.exists
  /\ last.file.readable
  /\ last.file.size # 0
  /\ last.file.ext # << >>

\* why the last read failed, told from its file and the registrations
Cause ==
  IF ~last.file.exists THEN "not_found"
  ELSE IF ~last.file.readable THEN "permission_denied"
  ELSE IF last.file.size = 0 THEN "empty_file"
  ELSE IF last.file.ext = << >> THEN "missing_extension"
  ELSE IF ~Registered(last.file.ext) THEN "unsupported_extension"
  ELSE "processing_failed"

NeverDispatched == last.reader = None /\ ~last.invoked

(***************************************************************************)
(* C1: every registered extension is supported and resolves to a handler  *)
(* class; a file that passes the path checks but whose extension is not    *)
(* registered makes read raise the unsupported-extension error without     *)
(* instantiating a handler.                                                *)
(***************************************************************************)
C1_RegisteredSupportedElseRejected ==
  /\ \A i \in 1..Len(Entries) :
        /\ IsSupported(registry, Entries[i].ext)
        /\ GetReader(registry, Entries[i].ext) # None
        /\ GetReader(registry, Entries[i].ext) \in ReaderClasses
  /\ (IsRead /\ PassesPathChecks /\ ~Registered(last.file.ext)) =>
        /\ last.kind = "raise"
        /\ last.exc = "ValueError"
        /\ last.msg = "Extension de archivo no soportada"
        /\ NeverDispatched

C1_Witness ==
  /\ IsRead /\ PassesPathChecks /\ ~Registered(last.file.ext)
  /\ last.kind = "raise"
  /\ \E i \in 1..Len(Entries) : Entries[i].ext = ExtLogUpper

(***************************************************************************)
(* C2: read checks exists, readable, non-empty, has-extension, registered  *)
(* in this order; the error raised is that of the earliest violated check  *)
(* and a failing call never instantiates a handler; a path without         *)
(* extension is rejected before the registry is consulted.                 *)
(***************************************************************************)
C2_EarliestViolatedCheckWins ==
  IsRead =>
    /\ ~last.file.exists =>
         last.kind = "raise" /\ last.msg = "Archivo no encontrado"
    /\ (last.file.exists /\ ~last.file.readable) =>
         last.kind = "raise" /\ last.msg = "El archivo no es legible"
    /\ (last.file.exists /\ last.file.readable /\ last.file.size = 0) =>
         last.kind = "raise" /\ last.msg = "El archivo esta vacio"
    /\ (last.file.exists /\ last.file.readable /\ last.file.size # 0
          /\ last.file.ext = << >>) =>
         /\ last.kind = "raise" /\ last.msg = "El archivo no tiene extension"
         /\ last.lookups = << >>
    /\ (PassesPathChecks /\ ~Registered(last.file.ext)) =>
         last.kind = "raise" /\ last.msg = "Extension de archivo no soportada"
    /\ Cause # "processing_failed" => NeverDispatched
    /\ (last.file.size = 0 \/ last.file.ext = << >>) => last.lookups = << >>

C2_Witness ==
  /\ IsRead
  /\ last.file.exists /\ last.file.readable
  /\ last.file.size = 0 /\ last.file.ext = << >>
  /\ last.msg = "El archivo esta vacio"

(***************************************************************************)
(* C3: an exception raised by the handler is re-raised by read as the one  *)
(* processing-failed error, which names the upper-cased extension and the  *)
(* underlying error; no other exception type of a handler reaches the      *)
(* caller.                                                                 *)
(***************************************************************************)
C3_HandlerErrorsWrapped ==
  (IsRead /\ last.invoked) =>
    LET h == ReaderRead(last.reader, last.file, config) IN
    h.kind = "raise" =>
      /\ last.kind = "raise"
      /\ last.exc = "ValueError"
      /\ last.msg = "Fallo al procesar archivo"
      /\ last.msgExt = Upper(last.file.ext)
      /\ last.cause = h.exc

C3_Witness ==
  /\ IsRead /\ last.invoked
  /\ ReaderRead(last.reader, last.file, config).exc = "FileNotFoundError"
  /\ last.exc = "ValueError"
  /\ last.file.ext = ExtCsvUpper

(***************************************************************************)
(* C4, as stated: failures of different causes raise errors of different   *)
(* kinds, so that the exception type alone tells the cause.                *)
(***************************************************************************)
C4_KindAloneTellsCause ==
  [][ LET c1 == Cause IN
      LET c2 == Cause' IN
      (last.op = "read" /\ last.kind = "raise" /\ last'.op = "read"
         /\ last'.kind = "raise" /\ c1 # c2) => last.exc # last'.exc ]_vars

(***************************************************************************)
(* C4, amended: not-found raises FileNotFoundError, permission-denied      *)
(* raises PermissionError, and empty-file, missing-extension, unsupported- *)
(* extension and processing-failed all raise ValueError, each with its own *)
(* message: the type together with the message tells the cause.            *)
(***************************************************************************)
ExpectedError ==
  [ not_found             |-> <<"FileNotFoundError", "Archivo no encontrado">>,
    permission_denied     |-> <<"PermissionError", "El archivo no es legible">>,
    empty_file            |-> <<"ValueError", "El archivo esta vacio">>,
    missing_extension     |-> <<"ValueError", "El archivo no tiene extension">>,
    unsupported_extension |-> <<"ValueError", "Extension de archivo no soportada">>,
    processing_failed     |-> <<"ValueError", "Fallo al procesar archivo">> ]

C4_TypeAndMessageTellCause ==
  /\ \A c1, c2 \in DOMAIN ExpectedError :
        c1 # c2 => ExpectedError[c1] # ExpectedError[c2]
  /\ (IsRead /\ last.kind = "raise") => <<last.exc, last.msg>> = ExpectedError[Cause]
  /\ (IsRead /\ Cause # "processing_failed") => last.kind = "raise"

C4_Witness ==
  /\ IsRead /\ last.kind = "raise"
  /\ Cause = "unsupported_extension"
  /\ last.exc = "ValueError"

(***************************************************************************)
(* C5: the registry holds at most one entry per lower-cased extension and  *)
(* resolves an extension, ignoring case, to the class of the most recent   *)
(* registration since the last clear, or to nothing.                       *)
(***************************************************************************)
C5_LastRegistrationWins ==
  /\ \A k1, k2 \in DOMAIN registry : Lower(k1) = Lower(k2) => k1 = k2
  /\ \A e \in ProbeExts :
        /\ GetReader(registry, e) = LastRegistered(e)
        /\ IsSupported(registry, e) <=> Registered(e)

C5_Witness ==
  /\ \E i, j \in 1..Len(Entries) :
        /\ i < j
        /\ Entries[i].ext = ExtCsv /\ Entries[j].ext = ExtCsvUpper
        /\ Entries[i].cls # Entries[j].cls
        /\ GetReader(registry, ExtCsv) = Entries[j].cls
  /\ GetReader(registry, ExtLog) = GetReader(registry, ExtCsv)
  /\ GetReader(registry, ExtLog) # None

(***************************************************************************)
(* C6: a configuration built with markdown_ai has ai_optimized,            *)
(* include_metadata and extract_key_sections true whatever was passed; for *)
(* every other format the three fields are as passed; output_format is     *)
(* always as passed.                                                       *)
(***************************************************************************)
C6_MarkdownAiForcesFlags ==
  /\ config.output_format = args.output_format
  /\ config.max_chunk_size = args.max_chunk_size
  /\ config.output_format = "markdown_ai" =>
        config.ai_optimized /\ config.include_metadata /\ config.extract_key_sections
  /\ config.output_format # "markdown_ai" =>
        /\ config.ai_optimized = args.ai_optimized
        /\ config.include_metadata = args.include_metadata
        /\ config.extract_key_sections = args.extract_key_sections

C6_Witness ==
  /\ last.op = "construct"
  /\ args.output_format = "markdown_ai"
  /\ ~args.ai_optimized /\ ~args.include_metadata /\ ~args.extract_key_sections
  /\ config.ai_optimized /\ config.include_metadata /\ config.extract_key_sections

(***************************************************************************)
(* Vocabulary of the properties about rendered documents                   *)
(***************************************************************************)
Returned == IsRead /\ last.kind = "return"

BothSteps == <<"ai_formatting", "json_structuring">>

Occurrences(seq, block) == Cardinality({i \in 1..Len(seq) : seq[i] = block})

Contains(seq, block) == \E i \in 1..Len(seq) : seq[i] = block

\* a serialized object that has every key of the structured output
IsStructuredJson(doc) ==
  /\ Len(doc) >= 2
  /\ doc[1] = "{"
  /\ doc[Len(doc)] = "}"
  /\ \A k \in 1..Len(JsonKeys) : Contains(doc, JsonKeys[k])

\* what the AI-formatting step handed to the JSON-structuring step
AiStepOutput ==
  IF config.output_format = "structured_json" /\ IsStructuredJson(last.result)
    THEN SubSeq(last.result, 2 + Len(JsonKeys), Len(last.result) - 1)
    ELSE last.result

AiBlocks ==
  {"metadata_block", "ai_summary", "key_sections",
   "full_document_content_heading", "ai_footer"}

\* the format-specific content of the plain-text handler
TxtContent ==
  IF config.output_format = "markdown_ai" THEN FormatAiText
  ELSE FormatStandardText(config)

(***************************************************************************)
(* C7: the AI-formatting step replaces the content by the full AI document *)
(* under markdown_ai; otherwise prepends exactly one metadata block to the *)
(* unchanged content when ai_optimized and include_metadata are both set;  *)
(* otherwise leaves the content unchanged.                                 *)
(***************************************************************************)
C7_AiFormattingThreeWay ==
  (Returned /\ last.steps = BothSteps) =>
    LET out == AiStepOutput IN
    /\ config.output_format = "markdown_ai" =>
         /\ Len(out) >= 5
         /\ SubSeq(out, 1, 4) = <<"metadata_block", "ai_summary", "key_sections",
                                  "full_document_content_heading">>
         /\ out[Len(out)] = "ai_footer"
         /\ last.reader = "TxtReader" => SubSeq(out, 5, Len(out) - 1) = TxtContent
    /\ (config.output_format # "markdown_ai"
          /\ config.ai_optimized /\ config.include_metadata) =>
         /\ Len(out) >= 1
         /\ out[1] = "metadata_block"
         /\ \A b \in AiBlocks : Occurrences(out, b) = (IF b = "metadata_block" THEN 1 ELSE 0)
         /\ last.reader = "TxtReader" => Tail(out) = TxtContent
    /\ (config.output_format # "markdown_ai"
          /\ ~(config.ai_optimized /\ config.include_metadata)) =>
         /\ \A b \in AiBlocks : ~Contains(out, b)
         /\ last.reader = "TxtReader" => out = TxtContent

C7_Witness ==
  /\ Returned /\ last.steps = BothSteps
  /\ last.reader = "TxtReader"
  /\ config.output_format = "markdown"
  /\ config.ai_optimized /\ config.include_metadata
  /\ last.result = <<"metadata_block">> \o FormatStandardText(config)

(***************************************************************************)
(* C8: every read of every handler that returns a string has applied the   *)
(* AI-formatting step and then the JSON-structuring step.                  *)
(***************************************************************************)
C8_BothStepsOnEveryReturn ==
  Returned => last.steps = BothSteps

(***************************************************************************)
(* C9: a read under structured_json that returns, returns a serialized     *)
(* object with all the fixed keys; under every other output format the     *)
(* JSON-structuring step leaves the document as it is.                     *)
(***************************************************************************)
C9_StructuredJsonAlwaysObject ==
  Returned =>
    IF config.output_format = "structured_json"
      THEN IsStructuredJson(last.result)
      ELSE ~Contains(last.result, "{") /\ ~Contains(last.result, "full_content")

(***************************************************************************)
(* C10, as stated: a file that exists, is readable, is not empty and has a *)
(* registered extension makes read return a string even when its content   *)
(* is malformed for its format.                                            *)
(***************************************************************************)
MalformedConds ==
  {"malformed", "undecodable", "not_zip", "corrupt_member", "missing_part",
   "convert_error", "empty_markdown", "other_format", "all_fail"}

ContentFailureConds ==
  {"malformed", "import_error", "corrupt_member", "missing_part",
   "convert_error", "empty_markdown", "all_fail", "render_error"}

\* the conditions under which the handler's access to the file fails
AccessFailureConds == {"vanished", "denied"}

\* the handler met a failure and returned a document instead of raising
RecoveredLocally ==
  /\ Returned /\ last.invoked
  /\ last.file.cond \in ContentFailureConds \cup AccessFailureConds

\* the blocks of a document that say that the processing failed
ErrorStatements ==
  {"yaml_parse_error_note", "docx_processing_error",
   "docx_unsupported_format_error", "excel_error_document"}

StatesError(doc) == \E i \in 1..Len(doc) : doc[i] \in ErrorStatements

(***************************************************************************)
(* C11: a read that recovered locally from a failure returns a document    *)
(* that states the error; it is never empty and never the raw content      *)
(* alone.                                                                  *)
(***************************************************************************)
C11_FallbackStatesError ==
  RecoveredLocally => (last.result # << >> /\ StatesError(last.result))

(***************************************************************************)
(* C12: when the handler's access to the file fails with file-not-found or *)
(* permission-denied, the handler raises that same error; it returns no    *)
(* document and raises no other error.                                     *)
(***************************************************************************)
C12_AccessErrorsLeaveHandlerUnchanged ==
  (IsRead /\ last.invoked /\ last.file.cond \in AccessFailureConds) =>
    /\ last.kind = "raise"
    /\ last.handlerExc = (IF last.file.cond = "vanished"
                            THEN "FileNotFoundError" ELSE "PermissionError")

(***************************************************************************)
(* Vocabulary of the properties about DocumentIntelligence                 *)
(***************************************************************************)
IsExtract == diCall.fn = "extract_key_sections"

IsFormat == diCall.fn = "format_for_ai_consumption"

InSeq(seq, x) == \E i \in 1..Len(seq) : seq[i] = x

\* the indices of the lines strictly between lines a and b that are not blank
ContentBetween(text, a, b) ==
  SelectSeq([i \in 1..Len(text) |-> i], LAMBDA i : a < i /\ i < b /\ ~text[i].blank)

\* a summary line first, a recommendations line at k, no other keyword line
SummaryThenRecommendations(text, k) ==
  /\ 1 < k /\ k <= Len(text)
  /\ SectionOfLine(text[1]) = "summary"
  /\ SectionOfLine(text[k]) = "recommendations"
  /\ \A i \in 1..Len(text) : (i # 1 /\ i # k) => text[i].has = {}

(***************************************************************************)
(* C13: key-section extraction never drops an accumulated line: every line *)
(* that entered the buffer of a section is in one of the returned          *)
(* sections.                                                               *)
(***************************************************************************)
C13_NoAccumulatedLineDropped ==
  IsExtract =>
    \A i \in diCall.out.accumulated :
      \E k \in 1..Len(SectionNames) : InSeq(diCall.out.sections[SectionNames[k]], i)

AiDocumentOrder ==
  << "metadata_block", "ai_summary", "key_metrics", "executive_summary",
     "performance_metrics", "recommendations", "full_document_content_heading",
     "content", "ai_footer" >>

BlockNames(doc) == [i \in 1..Len(doc) |-> doc[i].block]

HasBlock(doc, name) == \E i \in 1..Len(doc) : doc[i].block = name

BlockItems(doc, name) == doc[CHOOSE i \in 1..Len(doc) : doc[i].block = name].items

\* some line of the text takes the branch of the section
Identified(text, section) == \E i \in 1..Len(text) : SectionOfLine(text[i]) = section

\* some pattern matches in the text
HasMetric(text) == \E i \in 1..Len(text) : text[i].found # << >>

(***************************************************************************)
(* C15: the AI document is, in this order, the metadata block, the AI      *)
(* summary, the key metrics (at most ten, each once; present iff a metric  *)
(* was found), the executive summary, the performance metrics and the      *)
(* recommendations (each present iff identified), the heading, the content *)
(* as given, and the footer.                                               *)
(***************************************************************************)
C15_AiDocumentFixedOrder ==
  IsFormat =>
    LET doc  == diCall.out
        text == diCall.in IN
    /\ BlockNames(doc) = SelectSeq(AiDocumentOrder, LAMBDA n : HasBlock(doc, n))
    /\ \A n \in {"metadata_block", "ai_summary", "full_document_content_heading",
                 "content", "ai_footer"} : HasBlock(doc, n)
    /\ HasBlock(doc, "key_metrics") <=> HasMetric(text)
    /\ HasBlock(doc, "key_metrics") =>
         LET shown == BlockItems(doc, "key_metrics") IN
         /\ Len(shown) >= 1 /\ Len(shown) <= MaxShownMetrics
         /\ \A i, j \in 1..Len(shown) : shown[i] = shown[j] => i = j
         /\ \A i \in 1..Len(shown) : InSeq(TokensOf(text, 1), shown[i])
    /\ HasBlock(doc, "executive_summary") <=> Identified(text, "summary")
    /\ HasBlock(doc, "performance_metrics") <=> Identified(text, "metrics")
    /\ HasBlock(doc, "recommendations") <=> Identified(text, "recommendations")
    /\ BlockItems(doc, "content") = text

C15_Witness ==
  /\ IsFormat
  /\ Len(TokensOf(diCall.in, 1)) > MaxShownMetrics
  /\ HasBlock(diCall.out, "key_metrics")
  /\ Len(BlockItems(diCall.out, "key_metrics")) = MaxShownMetrics
  /\ HasBlock(diCall.out, "executive_summary")
  /\ HasBlock(diCall.out, "recommendations")
  /\ ~HasBlock(diCall.out, "performance_metrics")

(***************************************************************************)
(* C16: rendering the same text twice gives the same document.             *)
(***************************************************************************)
C16_SameInputSameDocument ==
  [][ (IsFormat /\ diCall'.fn = "format_for_ai_consumption" /\ diCall'.in = diCall.in)
        => diCall'.out = diCall.out ]_vars

(***************************************************************************)
(* C17: once the modules are loaded, no request, health check, read or     *)
(* query of the dispatcher writes the registry, in any interleaving.       *)
(***************************************************************************)
C17_RegistryOnlyRead ==
  [][registry' = registry /\ registry = ModuleLoadRegistry]_vars

C17_Witness ==
  /\ last.op = "health_check_handler"
  /\ config.output_format = "structured_json"
  /\ registry = ModuleLoadRegistry
  /\ GetReader(registry, ExtCsv) = "CsvReader"

(***************************************************************************)
(* C18: a request for a file whose format has no loaded handler (PDF) is   *)
(* rejected before dispatch: the dispatcher makes none of its checks and   *)
(* no handler is instantiated.                                             *)
(***************************************************************************)
C18_UnavailableRejectedBeforeDispatch ==
  (last.op = "lambda_handler" /\ Lower(last.file.ext) = ExtPdf
     /\ ~IsSupported(registry, ExtPdf)) =>
    /\ last.kind = "raise"
    /\ last.checks = << >>
    /\ last.lookups = << >>
    /\ NeverDispatched

(***************************************************************************)
(* Vocabulary of the properties about tables                               *)
(***************************************************************************)
\* the column limit of the spreadsheet tables
MaxTableColumns == 12

Widest(rows) ==
  IF rows = << >> THEN 0
  ELSE LET w == CHOOSE i \in 1..Len(rows) : \A j \in 1..Len(rows) : Len(rows[j]) <= Len(rows[i])
       IN Len(rows[w])

\* the table that the last call emitted, empty if it emitted none
EmittedTable ==
  IF diCall.fn = "create_markdown_table" THEN diCall.out
  ELSE IF diCall.fn = "convert_text_table" THEN diCall.out.table
  ELSE << >>

(***************************************************************************)
(* C19: every emitted table is rectangular: each of its rows reads as the  *)
(* same number of cells, which is the width of the widest source row, at   *)
(* most the column limit.                                                  *)
(***************************************************************************)
C19_TablesRectangularAtWidestRow ==
  LET table == EmittedTable
      width == IF Widest(diCall.in) < MaxTableColumns
                 THEN Widest(diCall.in) ELSE MaxTableColumns IN
  \A r \in 1..Len(table) : CellsReadInRow(table[r]) = width

(***************************************************************************)
(* C20: the standard Markdown rendering of CSV rows is the header row made *)
(* of the first row, one separator row with one --- per header column, and *)
(* one table row per remaining CSV row, in the order of the file.          *)
(***************************************************************************)
C20_CsvRowsKeptInOrder ==
  (diCall.fn = "csv_format_as_markdown" /\ diCall.out.output_format # "markdown_ai") =>
    LET rows  == diCall.in
        table == diCall.out.table IN
    /\ Len(table) = Len(rows) + 1
    /\ table[1] = rows[1]
    /\ Len(table[2]) = Len(rows[1])
    /\ \A i \in 1..Len(table[2]) : table[2][i] = "---"
    /\ \A r \in 2..Len(rows) : table[r + 1] = rows[r]
    /\ ~diCall.out.metadata /\ ~diCall.out.statistics
    /\ rows = ExampleCsv =>
         table = << <<"a", "b">>, <<"---", "---">>, <<"1", "2">>, <<"3", "4">> >>

C20_Witness ==
  /\ diCall.fn = "csv_format_as_markdown"
  /\ diCall.out.output_format = "markdown"
  /\ diCall.in = ExampleCsv
  /\ Len(diCall.out.table) = 4

(***************************************************************************)
(* Structural analysis of a parsed JSON or YAML document.                  *)
(* A parsed value is a node: the Python class of the value and, for a dict *)
(* or a list, the sequence of its member values or items (the keys of a    *)
(* dict are distinct, one for each member).                                *)
(***************************************************************************)
MaxNodes == 4

Node(type, children) == [type |-> type, children |-> children]

ScalarClasses == {"str", "int", "float", "bool", "NoneType"}

ContainerClasses == {"dict", "list"}

RECURSIVE ValuesOfSize(_)
RECURSIVE ForestsOfSize(_)
\* the parsed values of exactly n nodes
ValuesOfSize(n) ==
  (IF n = 1 THEN {Node(c, << >>) : c \in ScalarClasses} ELSE {})
    \cup {Node(c, f) : c \in ContainerClasses, f \in ForestsOfSize(n - 1)}

\* the sequences of parsed values of n nodes in all
ForestsOfSize(n) ==
  IF n = 0 THEN {<< >>}
  ELSE UNION {{<<v>> \o f : v \in ValuesOfSize(k), f \in ForestsOfSize(n - k)} :
                k \in 1..n}

ParsedValues == UNION {ValuesOfSize(n) : n \in 1..MaxNodes}

\* {"x": {"y": 1}}
ExampleJson == Node("dict", <<Node("dict", <<Node("int", << >>)>>)>>)

\* {"flag": true}
ExampleFlagJson == Node("dict", <<Node("bool", << >>)>>)

\* isinstance(obj, classes): bool is a subclass of int
IsInstance(type, classes) ==
  \/ type \in classes
  \/ type = "bool" /\ "int" \in classes

TypeLabels == <<"Object", "Array", "String", "Number", "Boolean", "Null">>

\* the label that the if/elif chain of analyze_recursive adds for a value
LabelOf(type) ==
  IF IsInstance(type, {"dict"}) THEN {"Object"}
  ELSE IF IsInstance(type, {"list"}) THEN {"Array"}
  ELSE IF IsInstance(type, {"str"}) THEN {"String"}
  ELSE IF IsInstance(type, {"int", "float"}) THEN {"Number"}
  ELSE IF IsInstance(type, {"bool"}) THEN {"Boolean"}
  ELSE IF type = "NoneType" THEN {"Null"}
  ELSE {}

NewAnalysis == [max_depth |-> 0, total_keys |-> 0, data_types |-> {}]

VisitCountingObjects(obj, depth, analysis) ==
  [ max_depth  |-> IF depth > analysis.max_depth THEN depth ELSE analysis.max_depth,
    total_keys |-> analysis.total_keys + (IF IsInstance(obj.type, {"dict"}) THEN 1 ELSE 0),
    data_types |-> analysis.data_types \cup LabelOf(obj.type) ]

\* what analyze_recursive does for obj itself, before it goes into its
\* members or items
Visit(obj, depth, analysis) ==
  [ max_depth  |-> IF depth > analysis.max_depth THEN depth ELSE analysis.max_depth,
    total_keys |-> analysis.total_keys
                     + (IF IsInstance(obj.type, {"dict"}) THEN Len(obj.children) ELSE 0),
    data_types |-> analysis.data_types \cup LabelOf(obj.type) ]

RECURSIVE AnalyzeRecursive(_, _, _)
RECURSIVE AnalyzeEach(_, _, _, _)
AnalyzeRecursive(obj, depth, analysis) ==
  IF IsInstance(obj.type, {"dict"}) \/ IsInstance(obj.type, {"list"})
    THEN AnalyzeEach(obj.children, 1, depth + 1, Visit(obj, depth, analysis))
    ELSE Visit(obj, depth, analysis)

\* the for loop over the members or items from the i-th on
AnalyzeEach(children, i, depth, analysis) ==
  IF i > Len(children) THEN analysis
  ELSE AnalyzeEach(children, i + 1, depth,
                   AnalyzeRecursive(children[i], depth, analysis))

Complexity(analysis) ==
  IF analysis.max_depth > 4 \/ analysis.total_keys > 50 THEN "Complex"
  ELSE IF analysis.max_depth > 2 \/ analysis.total_keys > 10 THEN "Moderate"
  ELSE "Simple"

\* list(set of labels), in the order the hash seed of the process gives
ListOfLabels(labels, seed) ==
  SelectSeq(IF seed = 0 THEN TypeLabels ELSE Reverse(TypeLabels),
            LAMBDA l : l \in labels)

Analysis(walked, seed) ==
  [ complexity |-> Complexity(walked),
    max_depth  |-> walked.max_depth,
    total_keys |-> walked.total_keys,
    data_types |-> ListOfLabels(walked.data_types, seed) ]

AnalyzeJsonStructure(data, seed) ==
  Analysis(AnalyzeRecursive(data, 0, NewAnalysis), seed)

\* the walk is skipped when the document is None
AnalyzeYamlStructure(data, seed) ==
  Analysis(IF data.type # "NoneType" THEN AnalyzeRecursive(data, 0, NewAnalysis)
                                     ELSE NewAnalysis, seed)

\* JsonReader._analyze_json_structure(data)
AnalyzeJsonStructureCall ==
  /\ diCall' = [ fn  |-> "analyze_json_structure",
                 in  |-> diCall.in,
                 out |-> AnalyzeJsonStructure(diCall.in, hashSeed) ]
  /\ UNCHANGED <<registry, regLog, config, args, last, hashSeed>>

\* YamlReader._analyze_yaml_structure(data)
AnalyzeYamlStructureCall ==
  /\ diCall' = [ fn  |-> "analyze_yaml_structure",
                 in  |-> diCall.in,
                 out |-> AnalyzeYamlStructure(diCall.in, hashSeed) ]
  /\ UNCHANGED <<registry, regLog, config, args, last, hashSeed>>

InitStructure ==
  /\ registry = ModuleLoadRegistry
  /\ regLog = [base |-> "load", regs |-> << >>]
  /\ config = DefaultConfig
  /\ args = DefaultArgs
  /\ last = NoCall("load")
  /\ diCall \in {NoPureCall(v) : v \in ParsedValues}
  /\ hashSeed \in HashSeeds

NextStructure == AnalyzeJsonStructureCall \/ AnalyzeYamlStructureCall

SpecStructure == InitStructure /\ [][NextStructure]_vars

(***************************************************************************)
(* Vocabulary of the properties of the structural analysis                 *)
(***************************************************************************)
IsAnalysis == diCall.fn \in {"analyze_json_structure", "analyze_yaml_structure"}

Max(a, b) == IF a > b THEN a ELSE b

RECURSIVE DeepestLevel(_)
RECURSIVE DeepestOf(_, _)
\* the deepest nesting level under a value that is at level 0
DeepestLevel(v) ==
  IF v.children = << >> THEN 0 ELSE 1 + DeepestOf(v.children, 1)

DeepestOf(children, i) ==
  IF i > Len(children) THEN 0
  ELSE Max(DeepestLevel(children[i]), DeepestOf(children, i + 1))

RECURSIVE KeysIn(_)
RECURSIVE KeysInEach(_, _)
\* the keys of the objects of a value, at every level
KeysIn(v) ==
  (IF v.type = "dict" THEN Len(v.children) ELSE 0) + KeysInEach(v.children, 1)

KeysInEach(children, i) ==
  IF i > Len(children) THEN 0
  ELSE KeysIn(children[i]) + KeysInEach(children, i + 1)

RECURSIVE ClassesIn(_)
\* the classes of the values that occur in a value, itself included
ClassesIn(v) ==
  {v.type} \cup UNION {ClassesIn(v.children[i]) : i \in 1..Len(v.children)}

\* the label of the claim for a class of values
LabelOfClass ==
  [dict |-> "Object", list |-> "Array", str |-> "String", int |-> "Number",
   float |-> "Number", bool |-> "Boolean", NoneType |-> "Null"]

\* C21: the analysis of a parsed JSON document reports as max_depth the
\* deepest nesting level of any of its values, the root being at level 0,
\* and as total_keys the number of keys of all its objects at every level;
\* {"x": {"y": 1}} gives max_depth 2 and total_keys 2.
C21_DepthAndKeysOfWholeDocument ==
  diCall.fn = "analyze_json_structure" =>
    /\ diCall.out.max_depth = DeepestLevel(diCall.in)
    /\ diCall.out.total_keys = KeysIn(diCall.in)
    /\ diCall.in = ExampleJson =>
         diCall.out.max_depth = 2 /\ diCall.out.total_keys = 2

C21_Witness ==
  /\ diCall.fn = "analyze_json_structure"
  /\ diCall.in = ExampleJson
  /\ diCall.out.max_depth = 2
  /\ diCall.out.total_keys = 2

\* C25: a type label is in data_types exactly when a value of that type
\* occurs in the document (true or false gives Boolean; a document without
\* numbers does not give Number).
C25_LabelsExactlyTypesPresent ==
  IsAnalysis =>
    \A i \in 1..Len(TypeLabels) :
      (\E j \in 1..Len(diCall.out.data_types) : diCall.out.data_types[j] = TypeLabels[i])
        <=> (\E c \in ClassesIn(diCall.in) : LabelOfClass[c] = TypeLabels[i])

(***************************************************************************)
(* extract_metrics_and_numbers on a string.  A string is the sequence of   *)
(* its characters; a match of a pattern at a position is told by the       *)
(* position after its last character, 0 when the pattern does not match    *)
(* there.                                                                  *)
(***************************************************************************)
MaxChunks == 3

\* the character at position i, "" past the end
At(s, i) == IF i >= 1 /\ i <= Len(s) THEN s[i] ELSE ""

IsDigit(c) == c \in {"0", "1", "2", "3", "4", "5", "6", "7", "8", "9"}

IsSpace(c) == c \in {" ", "\t", "\n", "\r"}

RECURSIVE DigitsEnd(_, _)
\* \d*: the position after the digits that start at i
DigitsEnd(s, i) == IF IsDigit(At(s, i)) THEN DigitsEnd(s, i + 1) ELSE i

RECURSIVE ThousandsEnd(_, _)
\* (?:,\d{3})*: the position after the groups of a comma and three digits
ThousandsEnd(s, i) ==
  IF At(s, i) = "," /\ IsDigit(At(s, i + 1)) /\ IsDigit(At(s, i + 2))
       /\ IsDigit(At(s, i + 3))
    THEN ThousandsEnd(s, i + 4) ELSE i

RECURSIVE SpacesEnd(_, _)
\* \s*
SpacesEnd(s, i) == IF IsSpace(At(s, i)) THEN SpacesEnd(s, i + 1) ELSE i

\* (?:millones?|millions?|mil|thousand), in the order of the alternatives
LargeNumberUnits ==
  <<[stem |-> <<"m", "i", "l", "l", "o", "n", "e">>, opt |-> "s"],
    [stem |-> <<"m", "i", "l", "l", "i", "o", "n">>, opt |-> "s"],
    [stem |-> <<"m", "i", "l">>, opt |-> ""],
    [stem |-> <<"t", "h", "o", "u", "s", "a", "n", "d">>, opt |-> ""]>>

\* (?:años?|years?|meses?|months?)
DurationUnits ==
  <<[stem |-> <<"a", "ñ", "o">>, opt |-> "s"],
    [stem |-> <<"y", "e", "a", "r">>, opt |-> "s"],
    [stem |-> <<"m", "e", "s", "e">>, opt |-> "s"],
    [stem |-> <<"m", "o", "n", "t", "h">>, opt |-> "s"]>>

\* the word at position i, compared under re.IGNORECASE
WordAt(s, i, word) ==
  /\ i + Len(word) - 1 <= Len(s)
  /\ Lower(SubSeq(s, i, i + Len(word) - 1)) = word

RECURSIVE UnitEnd(_, _, _, _)
\* the first alternative from the k-th on that matches at i, with its
\* optional last letter when that follows
UnitEnd(s, i, units, k) ==
  IF k > Len(units) THEN 0
  ELSE IF WordAt(s, i, units[k].stem)
    THEN LET e == i + Len(units[k].stem) IN
         IF units[k].opt # "" /\ WordAt(s, e, <<units[k].opt>>) THEN e + 1 ELSE e
  ELSE UnitEnd(s, i, units, k + 1)

\* (\d+(?:\.\d+)?%)
MatchPercentage(s, i) ==
  IF ~IsDigit(At(s, i)) THEN 0
  ELSE LET j == DigitsEnd(s, i) IN
       IF At(s, j) = "." /\ IsDigit(At(s, j + 1)) /\ At(s, DigitsEnd(s, j + 1)) = "%"
         THEN DigitsEnd(s, j + 1) + 1
       ELSE IF At(s, j) = "%" THEN j + 1
       ELSE 0

\* (\$\d+(?:,\d{3})*(?:\.\d{2})?)
MatchMoney(s, i) ==
  IF ~(At(s, i) = "$" /\ IsDigit(At(s, i + 1))) THEN 0
  ELSE LET k == ThousandsEnd(s, DigitsEnd(s, i + 1)) IN
       IF At(s, k) = "." /\ IsDigit(At(s, k + 1)) /\ IsDigit(At(s, k + 2))
         THEN k + 3 ELSE k

\* (\d+(?:,\d{3})*\s*(?:millones?|millions?|mil|thousand))
MatchLargeNumber(s, i) ==
  IF ~IsDigit(At(s, i)) THEN 0
  ELSE UnitEnd(s, SpacesEnd(s, ThousandsEnd(s, DigitsEnd(s, i))), LargeNumberUnits, 1)

\* (\d+(?:\.\d+)?\s*(?:años?|years?|meses?|months?))
MatchDuration(s, i) ==
  IF ~IsDigit(At(s, i)) THEN 0
  ELSE LET j == DigitsEnd(s, i)
           k == IF At(s, j) = "." /\ IsDigit(At(s, j + 1))
                  THEN DigitsEnd(s, j + 1) ELSE j
           e == UnitEnd(s, SpacesEnd(s, k), DurationUnits, 1) IN
       IF e # 0 THEN e ELSE UnitEnd(s, SpacesEnd(s, j), DurationUnits, 1)

MatchAt(pattern, s, i) ==
  CASE pattern = "percent"      -> MatchPercentage(s, i)
    [] pattern = "money"        -> MatchMoney(s, i)
    [] pattern = "large_number" -> MatchLargeNumber(s, i)
    [] pattern = "duration"     -> MatchDuration(s, i)

RECURSIVE ReFindall(_, _, _)
\* re.findall(pattern, content): the matches from position i on, left to
\* right, none of them overlapping the one before
ReFindall(pattern, s, i) ==
  IF i > Len(s) THEN << >>
  ELSE LET e == MatchAt(pattern, s, i) IN
       IF e # 0 THEN <<SubSeq(s, i, e - 1)>> \o ReFindall(pattern, s, e)
                ELSE ReFindall(pattern, s, i + 1)

RECURSIVE MetricsOfPatterns(_, _)
\* metrics.extend(matches) for the patterns from the k-th on
MetricsOfPatterns(s, k) ==
  IF k > Len(MetricPatterns) THEN << >>
  ELSE ReFindall(MetricPatterns[k], s, 1) \o MetricsOfPatterns(s, k + 1)

RECURSIVE FirstOccurrences(_, _)
\* the elements of a sequence once each
FirstOccurrences(seq, i) ==
  IF i > Len(seq) THEN << >>
  ELSE (IF \E j \in 1..(i - 1) : seq[j] = seq[i] THEN << >> ELSE <<seq[i]>>)
         \o FirstOccurrences(seq, i + 1)

\* list(set(metrics)) on strings: the elements once each, in one of the
\* orders that the hash seed of the process gives
ListOfSetOfStrings(metrics, seed) ==
  IF seed = 0 THEN FirstOccurrences(metrics, 1)
              ELSE Reverse(FirstOccurrences(metrics, 1))

ExtractMetricsAndNumbersOfStringKeepingAll(content, seed) ==
  MetricsOfPatterns(content, 1)

ExtractMetricsAndNumbersOfString(content, seed) ==
  ListOfSetOfStrings(MetricsOfPatterns(content, 1), seed)

\* "Revenue grew 15% to $2,000,000 over 3 years"
ExampleMetricsText ==
  <<"R", "e", "v", "e", "n", "u", "e", " ", "g", "r", "e", "w", " ", "1", "5",
      "%", " ", "t", "o", " ", "$", "2", ",", "0", "0", "0", ",", "0", "0",
      "0", " ", "o", "v", "e", "r", " ", "3", " ", "y", "e", "a", "r", "s">>

\* pieces of text that meet to make metrics
Chunks ==
  {<<"1", "%">>,
   <<"$", "1">>,
   <<"1", " ", "m", "i", "l">>,
   <<"2", " ", "y", "e", "a", "r", "s">>,
   <<"2", " ", "Y", "e", "a", "r", "s">>,
   <<",", "0", "0", "0">>,
   <<".", "5", "0">>,
   <<"l", "i", "o", "n">>,
   <<"s">>,
   <<" ">>,
   <<"x">>}

RECURSIVE Flatten(_)
Flatten(seqs) == IF seqs = << >> THEN << >> ELSE Head(seqs) \o Flatten(Tail(seqs))

MetricStrings ==
  {Flatten(cs) : cs \in UNION {[1..k -> Chunks] : k \in 0..MaxChunks}}
    \cup {ExampleMetricsText}

\* DocumentIntelligence.extract_metrics_and_numbers(content)
ExtractMetricsAndNumbersCall ==
  /\ diCall' = [ fn  |-> "extract_metrics_and_numbers",
                 in  |-> diCall.in,
                 out |-> ExtractMetricsAndNumbersOfString(diCall.in, hashSeed) ]
  /\ UNCHANGED <<registry, regLog, config, args, last, hashSeed>>

InitMetrics ==
  /\ registry = ModuleLoadRegistry
  /\ regLog = [base |-> "load", regs |-> << >>]
  /\ config = DefaultConfig
  /\ args = DefaultArgs
  /\ last = NoCall("load")
  /\ diCall \in {NoPureCall(s) : s \in MetricStrings}
  /\ hashSeed \in HashSeeds

NextMetrics == ExtractMetricsAndNumbersCall \/ ColdStart

SpecMetrics == InitMetrics /\ [][NextMetrics]_vars

(***************************************************************************)
(* Vocabulary of the properties of the metric extraction                   *)
(***************************************************************************)
ElementsOf(seq) == {seq[i] : i \in 1..Len(seq)}

NoDuplicates(seq) == \A i, j \in 1..Len(seq) : seq[i] = seq[j] => i = j

\* the matches of the four patterns in a string
MetricsOccurringIn(s) ==
  UNION {ElementsOf(ReFindall(MetricPatterns[k], s, 1)) : k \in 1..Len(MetricPatterns)}

Str15Percent == <<"1", "5", "%">>

Str2Million == <<"$", "2", ",", "0", "0", "0", ",", "0", "0", "0">>

Str3Years == <<"3", " ", "y", "e", "a", "r", "s">>

\* C22: the metric extraction returns every match of the percentage, money,
\* large-number and duration patterns in the text, each string once; the
\* example text gives "15%", "$2,000,000" and "3 years" among them.
C22_EveryMetricOnce ==
  diCall.fn = "extract_metrics_and_numbers" =>
    /\ NoDuplicates(diCall.out)
    /\ ElementsOf(diCall.out) = MetricsOccurringIn(diCall.in)
    /\ diCall.in = ExampleMetricsText =>
         {Str15Percent, Str2Million, Str3Years} \subseteq ElementsOf(diCall.out)

\* a text where a metric occurs twice
C22_Witness ==
  /\ diCall.fn = "extract_metrics_and_numbers"
  /\ Len(MetricsOfPatterns(diCall.in, 1)) > Len(diCall.out)
  /\ Len(diCall.out) >= 1

(***************************************************************************)
(* generate_ai_summary on a text.  The text is the sequence of the lines   *)
(* that content.split('\n') gives, each line the sequence of its           *)
(* characters.                                                             *)
(***************************************************************************)
MaxMarkupLines == 2

MaxPlainLines == 6

DefaultMaxLength == 500

MinMeaningfulLength == 10

LongLineLength == 120

RECURSIVE LStrip(_)
LStrip(line) ==
  IF line # << >> /\ IsSpace(Head(line)) THEN LStrip(Tail(line)) ELSE line

RECURSIVE RStrip(_)
RStrip(line) ==
  IF line # << >> /\ IsSpace(line[Len(line)])
    THEN RStrip(SubSeq(line, 1, Len(line) - 1)) ELSE line

\* str.strip()
Strip(line) == RStrip(LStrip(line))

\* the character of a code fence, which a string of this language cannot
\* hold
GraveAccent == "grave accent"

\* the tuple given to line.startswith
StructuralMarkers == {<<"-", "-", "-">>, <<GraveAccent, GraveAccent, GraveAccent>>, <<"#">>}

StartsWith(line, prefix) ==
  Len(line) >= Len(prefix) /\ SubSeq(line, 1, Len(prefix)) = prefix

RECURSIVE StrippedLines(_, _)
\* [line.strip() for line in content.split('\n') if line.strip()]
StrippedLines(content, i) ==
  IF i > Len(content) THEN << >>
  ELSE (IF Strip(content[i]) # << >> THEN <<Strip(content[i])>> ELSE << >>)
         \o StrippedLines(content, i + 1)

RECURSIVE MeaningfulLines(_, _)
\* the lines longer than ten characters that start with no marker
MeaningfulLines(lines, i) ==
  IF i > Len(lines) THEN << >>
  ELSE (IF Len(lines[i]) > MinMeaningfulLength
             /\ ~\E m \in StructuralMarkers : StartsWith(lines[i], m)
          THEN <<lines[i]>> ELSE << >>)
         \o MeaningfulLines(lines, i + 1)

RECURSIVE JoinWithSpaces(_)
\* ' '.join(lines)
JoinWithSpaces(lines) ==
  IF lines = << >> THEN << >>
  ELSE IF Len(lines) = 1 THEN lines[1]
  ELSE lines[1] \o <<" ">> \o JoinWithSpaces(Tail(lines))

Ellipsis == <<".", ".", ".">>

GenerateAiSummaryOfLinesAllLines(content, max_length) ==
  LET summary == JoinWithSpaces(MeaningfulLines(StrippedLines(content, 1), 1)) IN
  IF Len(summary) > max_length
    THEN SubSeq(summary, 1, max_length) \o Ellipsis
    ELSE summary

GenerateAiSummaryOfLines(content, max_length) ==
  LET summary ==
        JoinWithSpaces(FirstItems(MeaningfulLines(StrippedLines(content, 1), 1),
                                  MaxSummaryLines)) IN
  IF Len(summary) > max_length
    THEN SubSeq(summary, 1, max_length) \o Ellipsis
    ELSE summary

\* lines with and without markup, blank lines and lines with spaces around
MarkupLines ==
  {<<>>,
   <<" ", " ", " ">>,
   <<"s", "h", "o", "r", "t">>,
   <<"t", "e", "n", " ", "c", "h", "a", "r", "s", ".">>,
   <<"e", "l", "e", "v", "e", "n", " ", "c", "h", "a", "r">>,
   <<" ", " ", "p", "a", "d", "d", "e", "d", " ", " ", " ">>,
   <<"#", " ", "H", "e", "a", "d", "i", "n", "g", " ", "o", "n", "e">>,
   <<"-", "-", "-", " ", "r", "u", "l", "e", " ", "-", "-", "-">>,
   <<GraveAccent, GraveAccent, GraveAccent, "p", "y", "t", "h", "o", "n", " ", "r", "u", "n">>,
   <<" ", " ", "#", " ", "i", "n", "d", "e", "n", "t", "e", "d", " ", "h", "e", "a", "d">>,
   <<"-", "-", " ", "t", "w", "o", " ", "d", "a", "s", "h", "e", "s">>,
   <<" ", " ", "i", "n", "d", "e", "n", "t", "e", "d", " ", "t", "e", "x", "t", " ", "l", "i", "n", "e">>}

\* two lines of text and a heading
PlainLines ==
  {<<"f", "i", "r", "s", "t", " ", "l", "i", "n", "e", " ", "x", "x">>,
   <<"s", "e", "c", "o", "n", "d", " ", "l", "i", "n", "e", " ", "x">>,
   <<"#", " ", "H", "e", "a", "d", "i", "n", "g", " ", "o", "n", "e">>}

LongLine == [i \in 1..LongLineLength |-> "x"]

\* five lines that make a summary longer than the default max_length
LongContent == <<LongLine, LongLine, LongLine, LongLine, LongLine>>

SummaryContents ==
  TextsOver(MarkupLines, MaxMarkupLines) \cup TextsOver(PlainLines, MaxPlainLines)
    \cup {LongContent}

MaxLengths == {0, 20, DefaultMaxLength}

\* DocumentIntelligence.generate_ai_summary(content, max_length)
GenerateAiSummaryCall ==
  /\ diCall' = [ fn  |-> "generate_ai_summary",
                 in  |-> diCall.in,
                 out |-> GenerateAiSummaryOfLines(diCall.in.content,
                                                  diCall.in.max_length) ]
  /\ UNCHANGED <<registry, regLog, config, args, last, hashSeed>>

InitSummary ==
  /\ registry = ModuleLoadRegistry
  /\ regLog = [base |-> "load", regs |-> << >>]
  /\ config = DefaultConfig
  /\ args = DefaultArgs
  /\ last = NoCall("load")
  /\ diCall \in {NoPureCall([content |-> c, max_length |-> n]) :
                   c \in SummaryContents, n \in MaxLengths}
  /\ hashSeed \in HashSeeds

NextSummary == GenerateAiSummaryCall

SpecSummary == InitSummary /\ [][NextSummary]_vars

(***************************************************************************)
(* Vocabulary of the properties of the summary                             *)
(***************************************************************************)
IsMeaningful(line) ==
  Len(line) > 10 /\ ~StartsWith(line, <<"-", "-", "-">>)
    /\ ~StartsWith(line, <<GraveAccent, GraveAccent, GraveAccent>>) /\ ~StartsWith(line, <<"#">>)

\* the text of the first five of the lines, joined by single spaces
FirstFiveJoined(lines) ==
  LET five == SubSeq(lines, 1, IF Len(lines) < 5 THEN Len(lines) ELSE 5) IN
  [i \in 1..(IF five = << >> THEN 0
             ELSE Len(Flatten(five)) + Len(five) - 1) |->
     JoinWithSpaces(five)[i]]

Truncated(text, max_length) ==
  IF Len(text) > max_length THEN SubSeq(text, 1, max_length) \o <<".", ".", ".">>
  ELSE text

\* the lines of the text with the spaces around them removed, the lines
\* that are empty then left out
StrippedNonEmpty(content) ==
  SelectSeq([i \in 1..Len(content) |-> Strip(content[i])], LAMBDA l : l # << >>)

\* C23 as stated: the summary is made of the first five lines of the text
\* that are longer than 10 characters and start with no marker, joined by
\* single spaces and truncated to max_length characters and an ellipsis.
C23_SummaryOfFirstFiveLines ==
  diCall.fn = "generate_ai_summary" =>
    diCall.out = Truncated(FirstFiveJoined(SelectSeq(diCall.in.content, IsMeaningful)),
                           diCall.in.max_length)

\* C23 amended: the lines are first stripped of the spaces around them and
\* the empty ones dropped; of these the first five that are longer than 10
\* characters and start with no marker are joined by single spaces, and the
\* result is truncated to max_length characters and an ellipsis when it is
\* longer; the summary never exceeds max_length + 3 characters.
C23_SummaryOfFirstFiveStrippedLines ==
  diCall.fn = "generate_ai_summary" =>
    LET joined == FirstFiveJoined(SelectSeq(StrippedNonEmpty(diCall.in.content),
                                            IsMeaningful)) IN
    /\ diCall.out = Truncated(joined, diCall.in.max_length)
    /\ Len(diCall.out) <= diCall.in.max_length + 3
    /\ Len(joined) <= diCall.in.max_length => diCall.out = joined

\* six meaningful lines, the summary of the first five cut at max_length
C23_Witness ==
  /\ diCall.fn = "generate_ai_summary"
  /\ Len(SelectSeq(StrippedNonEmpty(diCall.in.content), IsMeaningful)) > 5
  /\ Len(diCall.out) = diCall.in.max_length + 3
  /\ diCall.in.max_length > 0

(***************************************************************************)
(* Vocabulary of the property about the advertised formats                 *)
(***************************************************************************)
AdvertisedFormats ==
  {ExtCsv, ExtDocx, ExtXlsx, ExtXls, ExtXlsm, ExtJson, ExtXml, ExtYaml, ExtYml,
   ExtTxt, ExtPdf}

\* C24: once the entry-point module is loaded, every advertised format (csv,
\* docx, xlsx, xls, xlsm, json, xml, yaml, yml, txt, pdf) is a key of the
\* registry, and a request for a stored file of one of these formats is
\* dispatched to a handler, never rejected as unsupported.
C24_AdvertisedFormatsRegistered ==
  /\ \A e \in AdvertisedFormats : e \in GetSupportedExtensions(registry)
  /\ (last.op = "lambda_handler" /\ Lower(last.file.ext) \in AdvertisedFormats) =>
       last.invoked

(***************************************************************************)
(* The reading strategies of ExcelReader, call by call.  outcomes[k] is    *)
(* what the k-th call of a library does: it returns the workbook data or   *)
(* raises an exception of the named class.                                 *)
(***************************************************************************)
StrategyOutcomes == {"data", "OSError", "ValueError"}

ExtXlsUpper == <<"X","L","S">>

\* _select_reading_strategy(file_path, file_extension), on the lower-cased
\* suffix without its dot
SelectReadingStrategyOfSuffix(file_extension) ==
  IF file_extension = ExtXls THEN "xlrd" ELSE "openpyxl"

\* _read_with_openpyxl / _read_with_xlrd as the k-th call of a library
ReadWithStrategy(strategy, k, outcomes) ==
  IF outcomes[k] = "data"
    THEN [kind |-> "return", exc |-> None,
          data |-> [strategy |-> strategy,
                    sheets |-> <<[read_by |-> strategy, call |-> k]>>]]
    ELSE [kind |-> "raise", exc |-> outcomes[k], data |-> None]

FallbackStrategiesOfSuffixReversed(file_extension) ==
  IF file_extension = ExtXls THEN <<"openpyxl", "xlrd">> ELSE <<"xlrd", "openpyxl">>

FallbackStrategiesOfSuffix(file_extension) ==
  IF file_extension = ExtXls THEN <<"xlrd", "openpyxl">> ELSE <<"openpyxl", "xlrd">>

FallbackFailed == [strategy |-> "fallback_failed", sheets |-> << >>]

RECURSIVE TryFallbacks(_, _, _, _)
\* the for loop of _read_with_fallback from the i-th strategy on, calls
\* being the strategies called so far
TryFallbacks(chain, i, outcomes, calls) ==
  IF i > Len(chain) THEN [kind |-> "return", data |-> FallbackFailed, calls |-> calls]
  ELSE LET r == ReadWithStrategy(chain[i], Len(calls) + 1, outcomes) IN
       IF r.kind = "return"
         THEN [kind |-> "return", data |-> r.data, calls |-> Append(calls, chain[i])]
         ELSE TryFallbacks(chain, i + 1, outcomes, Append(calls, chain[i]))

ReadWithFallbackOfSuffix(ext, outcomes, calls) ==
  TryFallbacks(FallbackStrategiesOfSuffix(Lower(ext)), 1, outcomes, calls)

\* _extract_excel_data(file_path, strategy)
ExtractExcelDataOfOutcomes(ext, strategy, outcomes) ==
  LET r == ReadWithStrategy(strategy, 1, outcomes) IN
  IF r.kind = "return"
    THEN [kind |-> "return", data |-> r.data, calls |-> <<strategy>>]
    ELSE ReadWithFallbackOfSuffix(ext, outcomes, <<strategy>>)

\* the first two statements of ExcelReader.read on a file called *.ext
ExtractExcelDataCall ==
  /\ diCall' = [ fn  |-> "extract_excel_data",
                 in  |-> diCall.in,
                 out |-> ExtractExcelDataOfOutcomes(
                           diCall.in.ext,
                           SelectReadingStrategyOfSuffix(Lower(diCall.in.ext)),
                           diCall.in.outcomes) ]
  /\ UNCHANGED <<registry, regLog, config, args, last, hashSeed>>

InitExcel ==
  /\ registry = ModuleLoadRegistry
  /\ regLog = [base |-> "load", regs |-> << >>]
  /\ config = DefaultConfig
  /\ args = DefaultArgs
  /\ last = NoCall("load")
  /\ diCall \in {NoPureCall([ext |-> x, outcomes |-> o]) :
                   x \in ExcelExts \cup {ExtXlsUpper},
                   o \in [1..3 -> StrategyOutcomes]}
  /\ hashSeed \in HashSeeds

NextExcel == ExtractExcelDataCall

SpecExcel == InitExcel /\ [][NextExcel]_vars

(***************************************************************************)
(* Vocabulary of the property about the reading strategies                 *)
(***************************************************************************)
\* the strategies in the order the claim gives: the selected one, then the
\* fallback chain
StrategyOrder(ext) ==
  IF Lower(ext) = ExtXls THEN <<"xlrd", "xlrd", "openpyxl">>
                         ELSE <<"openpyxl", "openpyxl", "xlrd">>

IsPrefix(s, t) == Len(s) <= Len(t) /\ SubSeq(t, 1, Len(s)) = s

\* C26: the spreadsheet handler calls xlrd first for .xls and openpyxl first
\* otherwise, then the fallback chain in order (xlrd, openpyxl for .xls;
\* openpyxl, xlrd otherwise); it returns the data of the first call that
\* succeeds, and the structure without sheets marked fallback_failed when
\* every call fails; it never raises.
C26_FirstSucceedingStrategyElseFallbackFailed ==
  diCall.fn = "extract_excel_data" =>
    LET order == StrategyOrder(diCall.in.ext)
        o     == diCall.in.outcomes
        out   == diCall.out IN
    /\ out.kind = "return"
    /\ out.calls # << >> /\ IsPrefix(out.calls, order)
    /\ \A k \in 1..3 :
         (o[k] = "data" /\ \A j \in 1..(k - 1) : o[j] # "data") =>
           /\ out.calls = SubSeq(order, 1, k)
           /\ out.data.strategy = order[k]
           /\ out.data.sheets = <<[read_by |-> order[k], call |-> k]>>
    /\ (\A k \in 1..3 : o[k] # "data") =>
         /\ out.calls = order
         /\ out.data.strategy = "fallback_failed"
         /\ out.data.sheets = << >>

\* an .xls file that xlrd fails on twice and openpyxl reads
C26_Witness ==
  /\ diCall.fn = "extract_excel_data"
  /\ Lower(diCall.in.ext) = ExtXls
  /\ diCall.out.calls = <<"xlrd", "xlrd", "openpyxl">>
  /\ diCall.out.data.strategy = "openpyxl"

(***************************************************************************)
(* Vocabulary of the property about the validation of Word files           *)
(***************************************************************************)
InvalidArchiveConds ==
  {"not_zip", "corrupt_member", "corrupt_unused_member", "missing_part"}

\* C27: a Word file that is no ZIP container, that has a corrupt member or
\* that lacks word/document.xml or [Content_Types].xml is rejected by the
\* Word handler with a ValueError raised to its caller, and never given to
\* the converter.
C27_InvalidArchivesRejected ==
  (last.op = "read" /\ last.invoked /\ last.reader = "DocxReader"
     /\ IsCompatibleFormat(last.file) /\ last.file.cond \in InvalidArchiveConds) =>
    /\ last.kind = "raise"
    /\ last.handlerExc = "ValueError"

(***************************************************************************)
(* The dataset statistics of CsvReader.  rows is what list(csv.reader)     *)
(* gives: the header row and the data rows, each the sequence of its cell  *)
(* texts; a blank line of the file is a row without cells.                 *)
(***************************************************************************)
MaxCsvCols == 2

MaxVariedRows == 1

\* len(rows) > 11: the statistics are written for more than ten data rows
StatisticsMinRows == 11

\* cell texts: an empty one, one of white space and one with a value
CompletenessCells == {"", " ", "v"}

\* cell.strip()
StripCell(cell) == IF cell = " " THEN "" ELSE cell

RECURSIVE EmptyCellsInRow(_, _)
\* the cells of a row from the j-th on with "not cell.strip()"
EmptyCellsInRow(row, j) ==
  IF j > Len(row) THEN 0
  ELSE (IF StripCell(row[j]) = "" THEN 1 ELSE 0) + EmptyCellsInRow(row, j + 1)

RECURSIVE EmptyCellsFrom(_, _)
\* empty_cells after the loop over rows[1:], counted from row i on
EmptyCellsFrom(rows, i) ==
  IF i > Len(rows) THEN 0
  ELSE EmptyCellsInRow(rows[i], 1) + EmptyCellsFrom(rows, i + 1)

\* "{completeness:.1f}": the tenths of a percent nearest to num / den
Tenths(num, den) ==
  IF num >= 0 THEN (2 * 10 * num + den) \div (2 * den)
              ELSE -((2 * 10 * (-num) + den) \div (2 * den))

NoCompleteness ==
  [kind |-> "return", exc |-> None, text |-> "none", num |-> 0, den |-> 1, tenths |-> 0]

\* _analyze_completeness(rows): the percentage as the fraction num / den
AnalyzeCompleteness(rows) ==
  LET total_cells == (Len(rows) - 1) * Len(rows[1])
      empty_cells == EmptyCellsFrom(rows, 2) IN
  IF Len(rows) < 2 THEN [NoCompleteness EXCEPT !.text = "No data"]
  ELSE IF total_cells = 0
    THEN [NoCompleteness EXCEPT !.kind = "raise", !.exc = "ZeroDivisionError"]
  ELSE [NoCompleteness EXCEPT !.text = "percent complete",
                             !.num = (total_cells - empty_cells) * 100,
                             !.den = total_cells,
                             !.tenths = Tenths((total_cells - empty_cells) * 100, total_cells)]

\* the Completeness line of _format_as_markdown: written in AI mode for
\* more than eleven rows
CsvDatasetStatistics(rows, output_format) ==
  IF output_format = "markdown_ai" /\ Len(rows) > StatisticsMinRows
    THEN AnalyzeCompleteness(rows)
    ELSE NoCompleteness

CompletenessRows ==
  UNION {[1..n -> CompletenessCells] : n \in 0..MaxCsvCols}

\* a header row, some data rows of any shape, then none or as many full
\* rows as make the data rows eleven
CompletenessTables ==
  {<<h>> \o varied \o [i \in 1..pad |-> [j \in 1..Len(h) |-> "v"]] :
     h \in UNION {[1..n -> {"v"}] : n \in 0..MaxCsvCols},
     varied \in UNION {[1..k -> CompletenessRows] : k \in 1..MaxVariedRows},
     pad \in {0, StatisticsMinRows}}

\* CsvReader._format_as_markdown(rows, file_path) in AI mode, its
\* statistics
CsvDatasetStatisticsCall ==
  /\ diCall' = [ fn  |-> "csv_dataset_statistics",
                 in  |-> diCall.in,
                 out |-> CsvDatasetStatistics(diCall.in, "markdown_ai") ]
  /\ UNCHANGED <<registry, regLog, config, args, last, hashSeed>>

InitCompleteness ==
  /\ registry = ModuleLoadRegistry
  /\ regLog = [base |-> "load", regs |-> << >>]
  /\ config = DefaultConfig
  /\ args = DefaultArgs
  /\ last = NoCall("load")
  /\ diCall \in {NoPureCall(t) : t \in CompletenessTables}
  /\ hashSeed \in HashSeeds

NextCompleteness == CsvDatasetStatisticsCall

SpecCompleteness == InitCompleteness /\ [][NextCompleteness]_vars

(***************************************************************************)
(* Vocabulary of the property about the completeness                       *)
(***************************************************************************)
RECURSIVE DataCells(_, _)
\* the number of cells of the data rows from row i on
DataCells(rows, i) ==
  IF i > Len(rows) THEN 0 ELSE Len(rows[i]) + DataCells(rows, i + 1)

NonEmptyDataCells(rows) == DataCells(rows, 2) - EmptyCellsFrom(rows, 2)

\* C28: for a parsed CSV with at least one data row rendered in AI mode the
\* completeness is computed without an error and is a percentage between 0
\* and 100, the share of the data cells that are not empty, also for rows
\* longer or shorter than the header row and for an empty header row.  It is
\* stated for the tables that the statistics are written for.
C28_CompletenessIsShareOfFilledCells ==
  (diCall.fn = "csv_dataset_statistics" /\ Len(diCall.in) > StatisticsMinRows) =>
    LET out == diCall.out IN
    /\ out.kind = "return"
    /\ out.text = "percent complete"
    /\ 0 <= out.num /\ out.num <= 100 * out.den
    /\ out.num * DataCells(diCall.in, 2) = 100 * NonEmptyDataCells(diCall.in) * out.den

(***************************************************************************)
(* The temporary file of a request.  env tells what the steps of the       *)
(* request meet: how the payload decodes, whether the write to the         *)
(* temporary file succeeds, what S3 answers to the check and to the        *)
(* download, and what the dispatcher does.  disk is the set of the         *)
(* temporary files that exist; os.unlink of an existing file succeeds.     *)
(***************************************************************************)
RequestEnvs ==
  [ method   : {"base64", "s3"},
    decoded  : {"bytes", "invalid", "empty"},
    written  : BOOLEAN,
    object   : {"found", "missing", "head_error"},
    download : {"ok", "ClientError", "OSError"},
    read     : {"return", "raise"} ]

TempFile == "tmp_file"

Step(kind, exc, path, disk) == [kind |-> kind, exc |-> exc, path |-> path, disk |-> disk]

\* lambda_handler._procesar_contenido_base64(file_content_b64, file_name)
ProcesarContenidoBase64(env, disk) ==
  IF env.decoded # "bytes" THEN Step("raise", "ValueError", None, disk)
  ELSE IF ~env.written
    THEN Step("raise", "ValueError", None, disk \cup {TempFile})
  ELSE Step("return", None, TempFile, disk \cup {TempFile})

\* main._procesar_contenido_base64(file_b64, filename)
ProcesarContenidoBase64Local(env, disk) ==
  IF env.decoded # "bytes" THEN Step("raise", "ValueError", None, disk)
  ELSE IF ~env.written
    THEN Step("raise", "OSError", None, disk \cup {TempFile})
  ELSE Step("return", None, TempFile, disk \cup {TempFile})

\* S3FileFetcher.download_to_temp(s3_uri): the temporary file is made with
\* delete=False before download_fileobj is called
DownloadToTemp(env, disk) ==
  IF env.download # "ok"
    THEN Step("raise", "ValueError", None, disk \cup {TempFile})
    ELSE Step("return", None, TempFile, disk \cup {TempFile})

\* _procesar_archivo_s3(s3_path, region)
ProcesarArchivoS3(env, disk) ==
  IF env.object # "found" THEN Step("raise", "ValueError", None, disk)
  ELSE DownloadToTemp(env, disk)

\* the finally block: if tmp_file_path and os.path.exists(tmp_file_path)
LimpiarTemporal(path, disk) ==
  IF path # None /\ path \in disk THEN disk \ {path} ELSE disk

\* what the try block reaches: the temporary file is prepared, its bytes are
\* read and the dispatcher reads it
TryRequest(env, prepared) ==
  IF prepared.kind = "raise" THEN prepared
  ELSE IF env.read = "raise"
    THEN Step("raise", "ValueError", prepared.path, prepared.disk)
  ELSE prepared

\* lambda_handler(event, context): tmp_file_path is assigned when the helper
\* returns
LambdaHandlerOfRequest(env) ==
  LET tried == TryRequest(env, IF env.method = "base64"
                                 THEN ProcesarContenidoBase64(env, {})
                                 ELSE ProcesarArchivoS3(env, {})) IN
  [ status        |-> IF tried.kind = "return" THEN 200 ELSE 400,
    kind          |-> "return",
    tmp_file_path |-> tried.path,
    disk          |-> LimpiarTemporal(tried.path, tried.disk) ]

\* main.procesar_evento_local(body, pdf_available): the exceptions leave it
\* after the finally block
ProcesarEventoLocal(env) ==
  LET tried == TryRequest(env, IF env.method = "base64"
                                 THEN ProcesarContenidoBase64Local(env, {})
                                 ELSE ProcesarArchivoS3(env, {})) IN
  [ status        |-> 0,
    kind          |-> tried.kind,
    tmp_file_path |-> tried.path,
    disk          |-> LimpiarTemporal(tried.path, tried.disk) ]

LambdaHandlerRequest ==
  /\ diCall' = [ fn  |-> "lambda_handler",
                 in  |-> diCall.in,
                 out |-> LambdaHandlerOfRequest(diCall.in) ]
  /\ UNCHANGED <<registry, regLog, config, args, last, hashSeed>>

ProcesarEventoLocalRequest ==
  /\ diCall' = [ fn  |-> "procesar_evento_local",
                 in  |-> diCall.in,
                 out |-> ProcesarEventoLocal(diCall.in) ]
  /\ UNCHANGED <<registry, regLog, config, args, last, hashSeed>>

InitRequest ==
  /\ registry = ModuleLoadRegistry
  /\ regLog = [base |-> "load", regs |-> << >>]
  /\ config = DefaultConfig
  /\ args = DefaultArgs
  /\ last = NoCall("load")
  /\ diCall \in {NoPureCall(env) : env \in RequestEnvs}
  /\ hashSeed \in HashSeeds

NextRequest == LambdaHandlerRequest \/ ProcesarEventoLocalRequest

SpecRequest == InitRequest /\ [][NextRequest]_vars

\* C29: when the request handler has returned, no temporary file that the
\* request created is left, on the success path and on every error path,
\* also when the download fails after the temporary file was created and
\* when the dispatcher fails.
C29_NoTempFileLeftAfterRequest ==
  diCall.fn \in {"lambda_handler", "procesar_evento_local"} =>
    diCall.out.disk = {}

(***************************************************************************)
(* The line-scanning passes of DocxReader._post_process_markdown.          *)
(* A line is known by its kind, which tells what the tests of the passes   *)
(* find in it:                                                             *)
(*   blank        ""                    text        "plain words"         *)
(*   fence_json   a json fence          fence_yaml  a yaml fence          *)
(*   fence        a bare fence          toc         "[1. Intro](#intro)"  *)
(*   table_row    "| a | b |"           pipe        "a|b"                 *)
(*   header2      "__A__ __B__"         header1     "__A__ and __ __"     *)
(*   star_row     "*x* *y*"             spaced_row  "v1   v2"             *)
(*   json_open    "{ "a": {"            json_close  "}}"                  *)
(*   json_obj     "{"a": 1}"            key_value   "Host: example.com"   *)
(* The index i of a loop counts from 0 as in the code: lines[i] of the     *)
(* code is lines[i + 1] here, and lines[i:] is From(lines, i).             *)
(***************************************************************************)
MaxPassLines == 3

CodeBlockLimit == 50

From(lines, i) == SubSeq(lines, i + 1, Len(lines))

IsBlank(l) == l = "blank"

\* stripped.startswith of a fence of any language
StartsWithFence(l) == l \in {"fence_json", "fence_yaml", "fence"}

LooksLikeTocEntry(l) == l = "toc"

\* '{' in line or '[' in line
HasBracket(l) == l \in {"toc", "json_open", "json_obj"}

\* '|' in line
HasPipe(l) == l \in {"table_row", "pipe"}

\* _is_table_start(line): two pipes or more in more than five characters
IsTableStart(l) == l = "table_row"

\* _looks_like_table_header(lines[i:i+3]): the test is on the first line
LooksLikeTableHeader(l) == l \in {"header2", "header1", "star_row"}

\* the number of headers that _convert_text_table keeps of the first line
HeadersIn(l) == IF l \in {"header2", "star_row"} THEN 2
                ELSE IF l = "header1" THEN 1 ELSE 0

\* the number of values that _extract_table_row_values gives for a line
RowValuesIn(l) == IF l \in {"star_row", "spaced_row", "table_row", "pipe"} THEN 2 ELSE 0

\* _starts_code_block(stripped)
StartsCodeBlock(l) == l \in {"toc", "json_open", "json_obj", "key_value"}

\* the language that _extract_code_block finds in the first line
LangOf(l) == IF l \in {"toc", "json_open", "json_obj"} THEN "json"
             ELSE IF l = "key_value" THEN "yaml" ELSE ""

\* count('{') - count('}') + count('[') - count(']') of a line: the braces
\* and the brackets of these lines are never both unbalanced
BraceDelta(l) == IF l = "json_open" THEN 2 ELSE IF l = "json_close" THEN -2 ELSE 0

RECURSIVE TocScan(_, _, _)
\* the while loop of _process_toc_block: the index where it stops
TocScan(lines, i, entries) ==
  IF i >= Len(lines) THEN i
  ELSE IF StartsWithFence(lines[i + 1]) THEN i + 1
  ELSE IF LooksLikeTocEntry(lines[i + 1]) THEN TocScan(lines, i + 1, entries + 1)
  ELSE IF ~IsBlank(lines[i + 1]) THEN i
  ELSE TocScan(lines, i + 1, entries)

\* _process_toc_block(lines): lines_consumed
ProcessTocBlock(lines) == TocScan(lines, 1, 0)

RECURSIVE ReadBlock(_, _, _)
\* the lines of a block up to its closing fence: the index after it and the
\* content with these lines added
ReadBlock(lines, i, content) ==
  IF i >= Len(lines) THEN [i |-> i, content |-> content]
  ELSE IF lines[i + 1] = "fence" THEN [i |-> i + 1, content |-> content]
  ELSE ReadBlock(lines, i + 1, Append(content, lines[i + 1]))

RECURSIVE SkipBlank(_, _)
SkipBlank(lines, i) ==
  IF i < Len(lines) /\ IsBlank(lines[i + 1]) THEN SkipBlank(lines, i + 1) ELSE i

RECURSIVE Preview(_, _, _)
\* the lines after the fence at i, three at most, up to a closing fence
Preview(lines, j, stop) ==
  IF j < Len(lines) /\ j < stop /\ lines[j + 1] # "fence"
    THEN <<lines[j + 1]>> \o Preview(lines, j + 1, stop)
    ELSE << >>

\* _should_merge_blocks(existing_content, next_content)
ShouldMergeBlocks(existing, next) ==
  LET first3 == SubSeq(existing, 1, IF Len(existing) < 3 THEN Len(existing) ELSE 3)
      first2(s) == SubSeq(s, 1, IF Len(s) < 2 THEN Len(s) ELSE 2)
      brackets(s) == \E k \in 1..Len(first2(s)) : HasBracket(s[k]) IN
  IF existing = << >> \/ next = << >> THEN FALSE
  ELSE IF \A k \in 1..Len(first3) : IsBlank(first3[k]) \/ first3[k] = "toc" THEN FALSE
  ELSE brackets(existing) = brackets(next)

RECURSIVE MergeScan(_, _, _, _)
\* the second while loop of _try_merge_code_blocks
MergeScan(lines, i, content, fence) ==
  IF i >= Len(lines) THEN [i |-> i, content |-> content]
  ELSE LET k == SkipBlank(lines, i) IN
       IF k < Len(lines) /\ lines[k + 1] = fence
            /\ ShouldMergeBlocks(content, Preview(lines, k + 1, k + 4))
         THEN LET b == ReadBlock(lines, k + 1, content) IN
              MergeScan(lines, b.i, b.content, fence)
         ELSE [i |-> k, content |-> content]

\* _try_merge_code_blocks(lines): lines_consumed
TryMergeCodeBlocks(lines) ==
  IF Len(lines) < 3 THEN 1
  ELSE LET first  == ReadBlock(lines, 1, << >>)
           merged == MergeScan(lines, first.i, first.content, lines[1]) IN
       IF merged.content # << >> THEN merged.i ELSE 1

RECURSIVE TableRowsScan(_, _, _)
\* the while loop of _convert_text_table over the data rows
TableRowsScan(lines, i, rows) ==
  IF i >= Len(lines) THEN [i |-> i, rows |-> rows]
  ELSE IF IsBlank(lines[i + 1]) THEN [i |-> i + 1, rows |-> rows]
  ELSE IF RowValuesIn(lines[i + 1]) >= 2 THEN TableRowsScan(lines, i + 1, rows + 1)
  ELSE [i |-> i, rows |-> rows]

ConvertTextTableConsumedDataRows(lines) ==
  IF lines = << >> THEN 0
  ELSE TableRowsScan(lines, 1, 0).rows

\* _convert_text_table(lines): lines_consumed
ConvertTextTableConsumed(lines) ==
  IF lines = << >> THEN 0
  ELSE IF HeadersIn(lines[1]) < 2 THEN 1
  ELSE LET scan == TableRowsScan(lines, 1, 0) IN
       IF scan.rows >= 1 THEN scan.i ELSE 1

RECURSIVE TableBlockScan(_, _)
\* the while loop of _process_table_block
TableBlockScan(lines, i) ==
  IF i >= Len(lines) THEN i
  ELSE IF IsBlank(lines[i + 1]) THEN i + 1
  ELSE IF HasPipe(lines[i + 1]) THEN TableBlockScan(lines, i + 1)
  ELSE i

\* _process_table_block(lines): lines_consumed
ProcessTableBlock(lines) == TableBlockScan(lines, 0)

RECURSIVE CodeBlockScan(_, _, _, _)
\* the while loop of _extract_code_block
CodeBlockScan(lines, i, lang, open) ==
  IF i >= Len(lines) THEN i
  ELSE LET l     == lines[i + 1]
           count == IF lang = "json" THEN open + BraceDelta(l) ELSE open IN
       IF IsBlank(l) /\ i + 1 > 1 THEN i + 1
       ELSE IF lang = "json" /\ i + 1 > 1 /\ count <= 0 THEN i + 1
       ELSE IF i + 1 >= CodeBlockLimit THEN i + 1
       ELSE CodeBlockScan(lines, i + 1, lang, count)

\* _extract_code_block(lines): lines_consumed
ExtractCodeBlock(lines) ==
  IF lines = << >> THEN 0 ELSE CodeBlockScan(lines, 0, LangOf(lines[1]), 0)

\* a pass at the start of its loop
PassStart(pass, lines) ==
  [ fn  |-> pass,
    in  |-> lines,
    out |-> [i |-> 0, helper |-> "none", consumed |-> 0, in_existing_code_block |-> FALSE] ]

\* the end of one iteration of the loop of a pass
Advance(helper, consumed) ==
  diCall' = [diCall EXCEPT !.out.i = @ + consumed,
                           !.out.helper = helper,
                           !.out.consumed = consumed]

\* one iteration of the loop of _improve_toc_detection
ImproveTocDetectionStep ==
  /\ diCall.fn = "improve_toc_detection"
  /\ diCall.out.i < Len(diCall.in)
  /\ LET i == diCall.out.i  lines == diCall.in IN
     IF lines[i + 1] = "fence_json" /\ i + 2 < Len(lines) /\ LooksLikeTocEntry(lines[i + 2])
       THEN Advance("process_toc_block", ProcessTocBlock(From(lines, i)))
       ELSE Advance("none", 1)
  /\ UNCHANGED <<registry, regLog, config, args, last, hashSeed>>

\* one iteration of the loop of _merge_fragmented_code_blocks
MergeFragmentedCodeBlocksStep ==
  /\ diCall.fn = "merge_fragmented_code_blocks"
  /\ diCall.out.i < Len(diCall.in)
  /\ LET i == diCall.out.i  lines == diCall.in IN
     IF lines[i + 1] \in {"fence_json", "fence_yaml"}
       THEN Advance("try_merge_code_blocks", TryMergeCodeBlocks(From(lines, i)))
       ELSE Advance("none", 1)
  /\ UNCHANGED <<registry, regLog, config, args, last, hashSeed>>

\* one iteration of the loop of _improve_table_detection
ImproveTableDetectionStep ==
  /\ diCall.fn = "improve_table_detection"
  /\ diCall.out.i < Len(diCall.in)
  /\ LET i == diCall.out.i  lines == diCall.in IN
     IF LooksLikeTableHeader(lines[i + 1])
       THEN Advance("convert_text_table", ConvertTextTableConsumed(From(lines, i)))
       ELSE Advance("none", 1)
  /\ UNCHANGED <<registry, regLog, config, args, last, hashSeed>>

\* one iteration of the loop of _improve_tables
ImproveTablesStep ==
  /\ diCall.fn = "improve_tables"
  /\ diCall.out.i < Len(diCall.in)
  /\ LET i == diCall.out.i  lines == diCall.in IN
     IF IsTableStart(lines[i + 1])
       THEN Advance("process_table_block", ProcessTableBlock(From(lines, i)))
       ELSE Advance("none", 1)
  /\ UNCHANGED <<registry, regLog, config, args, last, hashSeed>>

\* one iteration of the loop of _improve_code_detection
ImproveCodeDetectionStep ==
  /\ diCall.fn = "improve_code_detection"
  /\ diCall.out.i < Len(diCall.in)
  /\ LET i == diCall.out.i  lines == diCall.in IN
     IF StartsWithFence(lines[i + 1])
       THEN diCall' = [diCall EXCEPT !.out.i = @ + 1,
                                     !.out.helper = "none",
                                     !.out.consumed = 1,
                                     !.out.in_existing_code_block = ~@]
     ELSE IF diCall.out.in_existing_code_block THEN Advance("none", 1)
     ELSE IF StartsCodeBlock(lines[i + 1])
       THEN Advance("extract_code_block", ExtractCodeBlock(From(lines, i)))
     ELSE Advance("none", 1)
  /\ UNCHANGED <<registry, regLog, config, args, last, hashSeed>>

\* the kinds of line that the tests of a pass tell apart
PassLines(pass) ==
  CASE pass = "improve_toc_detection" ->
         {"blank", "text", "fence_json", "fence", "toc"}
    [] pass = "merge_fragmented_code_blocks" ->
         {"blank", "text", "fence_json", "fence_yaml", "fence", "toc", "json_obj"}
    [] pass = "improve_table_detection" ->
         {"blank", "text", "header2", "header1", "star_row", "spaced_row"}
    [] pass = "improve_tables" ->
         {"blank", "text", "table_row", "pipe"}
    [] pass = "improve_code_detection" ->
         {"blank", "text", "fence", "json_open", "json_close", "json_obj",
          "key_value", "toc"}

ScanningPasses ==
  {"improve_toc_detection", "merge_fragmented_code_blocks",
   "improve_table_detection", "improve_tables", "improve_code_detection"}

\* a table of contents in a json fence; two json blocks to merge; a text
\* table with two rows; a table; a JSON object over three lines
PassExamples ==
  { PassStart("improve_toc_detection", <<"text", "fence_json", "toc", "toc", "fence", "text">>),
    PassStart("merge_fragmented_code_blocks",
              <<"fence_json", "json_obj", "fence", "blank", "fence_json", "json_obj", "fence">>),
    PassStart("improve_table_detection", <<"header2", "star_row", "spaced_row", "blank", "text">>),
    PassStart("improve_tables", <<"table_row", "table_row", "pipe", "blank", "text">>),
    PassStart("improve_code_detection", <<"json_open", "text", "json_close", "text">>) }

\* content.split of a line feed gives one line at least
PassTexts(pass) == TextsOver(PassLines(pass), MaxPassLines) \ {<< >>}

InitPasses ==
  /\ registry = ModuleLoadRegistry
  /\ regLog = [base |-> "load", regs |-> << >>]
  /\ config = DefaultConfig
  /\ args = DefaultArgs
  /\ last = NoCall("load")
  /\ diCall \in UNION {{PassStart(p, t) : t \in PassTexts(p)} : p \in ScanningPasses}
                  \cup PassExamples
  /\ hashSeed \in HashSeeds

NextPasses ==
  \/ ImproveTocDetectionStep
  \/ MergeFragmentedCodeBlocksStep
  \/ ImproveTableDetectionStep
  \/ ImproveTablesStep
  \/ ImproveCodeDetectionStep

\* the loop of a pass goes on as long as i < len(lines)
SpecPasses == InitPasses /\ [][NextPasses]_vars /\ WF_vars(NextPasses)

\* C30: every iteration of the loop of a line-scanning pass of the Word
\* handler moves the line index forward by at least one line, the helper it
\* calls reporting at least one consumed line and no more lines than there
\* are, and every pass ends: its index reaches the number of lines.
C30_EveryPassAdvancesAndEnds ==
  /\ [][ /\ diCall'.out.consumed >= 1
         /\ diCall'.out.i >= diCall.out.i + 1
         /\ diCall'.out.i <= Len(diCall.in) ]_vars
  /\ <>(diCall.out.i = Len(diCall.in))

\* a pass that has ended after a helper took several lines at once
C30_Witness ==
  /\ diCall.fn \in ScanningPasses
  /\ diCall.out.i = Len(diCall.in)
  /\ diCall.out.helper # "none"
  /\ diCall.out.consumed >= 2

====
